---- MODULE Spec2Model ----
(***************************************************************************)
(* A model of the redmine_api client: the RedmineClient transport          *)
(* (src/src/lib.rs), the filter and write builders and the single-shot     *)
(* executors of the four resource modules (issues, projects, time_entries, *)
(* users), and the remote server as a nondeterministic responder.          *)
(*                                                                         *)
(* One object (a filter, a builder or an executor) is alive at a time: a   *)
(* factory call of a resource Api creates it, setters mutate it, execute   *)
(* sends one request and records the response and the result, and the      *)
(* object is dropped before the next one is made.                          *)
(***************************************************************************)
EXTENDS Integers, Sequences, FiniteSets, TLC

VARIABLES
    client,   \* the RedmineClient {host, apikey} shared through Rc
    api,      \* the RedmineApi facade: one resource Api per accessor
    obj,      \* the live filter / builder / executor (its struct fields)
    made,     \* history: the factory call that made obj, with its arguments
    touched,  \* history: names of the fields set by the constructor or a setter
    log,      \* history: the id-list setter calls made on obj, in call order
    calls,    \* history: number of setter calls made on obj
    last,     \* history: the setter call made last on obj, with the value it passed
    sent,     \* the requests put on the wire since obj was made, in order
    resp,     \* the response to the last step, if it was an execute (else NoResponse)
    result    \* the value returned by the last step, if it was an execute (else NoResult)

vars == <<client, api, obj, made, touched, log, calls, last, sent, resp, result>>

----------------------------------------------------------------------------
(* Bounds of the exploration. *)

\* setter calls made on one object
MaxCalls == 2
\* execute calls made on one object
MaxExec == 2
\* setter and execute calls made on one object, together
MaxOps == 3

----------------------------------------------------------------------------
(* Input domains. *)

\* host strings: a url with a scheme, and a string that is no url
Hosts == {"http://localhost:8080", "localhost"}
ApiKeys == {"1234"}
\* u32 arguments: zero, and a number of more than one digit
Ids == {0, 12}
\* Vec<u32> arguments of the id-list setters
IdLists == {<<>>, <<1>>, <<2, 3>>}
\* &str arguments
Strs == {"", "a"}
\* f32 arguments, in tenths (34 stands for 3.4)
Floats == {0, 34}

\* Option<T>: None is the empty tuple, Some(v) the one-element tuple
None == <<>>
Some(v) == <<v>>

----------------------------------------------------------------------------
(* Text helpers: u32::to_string, slice join, format!, str::contains. *)

Digit(d) == SubSeq("0123456789", d + 1, d + 1)

RECURSIVE to_string(_)
to_string(n) == IF n < 10 THEN Digit(n) ELSE to_string(n \div 10) \o Digit(n % 10)

RECURSIVE join(_, _)
join(strs, sep) ==
    IF Len(strs) = 0 THEN ""
    ELSE IF Len(strs) = 1 THEN strs[1]
    ELSE strs[1] \o sep \o join(Tail(strs), sep)

Contains(s, t) ==
    \E i \in 1..(Len(s) - Len(t) + 1) : SubSeq(s, i, i + Len(t) - 1) = t

----------------------------------------------------------------------------
(* serde_json.  A JSON value is a tagged record; an object keeps its       *)
(* members in order, as pairs.                                             *)

JNum(n) == [t |-> "num", v |-> n]
\* a number with a fraction, in tenths
JFlt(n) == [t |-> "flt", v |-> n]
JStr(x) == [t |-> "str", v |-> x]
JBool(b) == [t |-> "bool", v |-> b]
JNull == [t |-> "null", v |-> 0]
JArr(items) == [t |-> "arr", v |-> items]
JObj(members) == [t |-> "obj", v |-> members]

\* serde_json::to_string: the compact text of a value
RECURSIVE to_json_text(_)
to_json_text(j) ==
    CASE j.t = "num" -> to_string(j.v)
      [] j.t = "flt" -> to_string(j.v \div 10) \o "." \o Digit(j.v % 10)
      [] j.t = "str" -> "\"" \o j.v \o "\""
      [] j.t = "bool" -> IF j.v THEN "true" ELSE "false"
      [] j.t = "null" -> "null"
      [] j.t = "arr" -> "[" \o join([i \in DOMAIN j.v |-> to_json_text(j.v[i])], ",") \o "]"
      [] j.t = "obj" ->
            "{" \o join([i \in DOMAIN j.v |->
                           "\"" \o j.v[i][1] \o "\":" \o to_json_text(j.v[i][2])], ",") \o "}"

\* The read models: what #[derive(Deserialize)] expects of a value.
U32 == [k |-> "u32"]
F32 == [k |-> "f32"]
StringT == [k |-> "String"]
BoolT == [k |-> "bool"]
OptionT(T) == [k |-> "opt", of |-> T]
VecT(T) == [k |-> "vec", of |-> T]
\* a struct: its deserialized fields, as <<name, type>>
StructT(fields) == [k |-> "struct", fields |-> fields]

Good(v) == [ok |-> TRUE, val |-> <<v>>]
Bad == [ok |-> FALSE, val |-> <<>>]

\* the member of an object with the key n, if any
Member(j, n) ==
    IF \E i \in DOMAIN j.v : j.v[i][1] = n
    THEN Some(j.v[CHOOSE i \in DOMAIN j.v : j.v[i][1] = n][2])
    ELSE None

\* Deserialize::deserialize of the type T on the value j.  A struct takes
\* its fields from the members of that name and ignores the others; a
\* missing member is None for an Option field and an error for any other;
\* null is None.  A Vec takes the elements one by one and stops with the
\* error of the first element that fails.
RECURSIVE deserialize(_, _), visit_seq(_, _)

\* visit_seq, but the elements before the first that fails are returned
RECURSIVE visit_seq_lenient(_, _)
visit_seq_lenient(T, items) ==
    IF items = <<>> THEN Good(<<>>)
    ELSE LET h == deserialize(T, Head(items))
         IN IF ~h.ok THEN Good(<<>>)
            ELSE LET rest == visit_seq_lenient(T, Tail(items))
                 IN Good(<<h.val[1]>> \o rest.val[1])

visit_seq(T, items) ==
    IF items = <<>> THEN Good(<<>>)
    ELSE LET h == deserialize(T, Head(items))
         IN IF ~h.ok THEN Bad
            ELSE LET rest == visit_seq(T, Tail(items))
                 IN IF ~rest.ok THEN Bad ELSE Good(<<h.val[1]>> \o rest.val[1])

deserialize(T, j) ==
    CASE T.k = "u32" -> IF j.t = "num" THEN Good(j.v) ELSE Bad
      [] T.k = "f32" -> IF j.t = "num" THEN Good(10 * j.v)
                        ELSE IF j.t = "flt" THEN Good(j.v) ELSE Bad
      [] T.k = "String" -> IF j.t = "str" THEN Good(j.v) ELSE Bad
      [] T.k = "bool" -> IF j.t = "bool" THEN Good(j.v) ELSE Bad
      [] T.k = "opt" ->
            IF j.t = "null" THEN Good(None)
            ELSE LET r == deserialize(T.of, j)
                 IN IF r.ok THEN Good(Some(r.val[1])) ELSE Bad
      [] T.k = "vec" -> IF j.t = "arr" THEN visit_seq(T.of, j.v) ELSE Bad
      [] T.k = "struct" ->
            IF j.t # "obj" THEN Bad
            ELSE LET names == {T.fields[i][1] : i \in DOMAIN T.fields}
                     TypeOf(n) == T.fields[CHOOSE i \in DOMAIN T.fields : T.fields[i][1] = n][2]
                     Field(n) ==
                        IF Member(j, n) # None THEN deserialize(TypeOf(n), Member(j, n)[1])
                        ELSE IF TypeOf(n).k = "opt" THEN Good(None) ELSE Bad
                 IN IF \A n \in names : Field(n).ok
                    THEN Good([n \in names |-> Field(n).val[1]])
                    ELSE Bad

\* lib.rs: Object and NamedObject
ObjectT == StructT(<< <<"id", U32>> >>)
NamedObjectT == StructT(<< <<"id", U32>>, <<"name", StringT>> >>)

\* issues.rs: Issue, IssueList and the deserialized field of IssueShow
IssueT ==
    StructT(<< <<"assigned_to", OptionT(NamedObjectT)>>, <<"author", NamedObjectT>>,
               <<"category", OptionT(NamedObjectT)>>, <<"created_on", StringT>>,
               <<"description", OptionT(StringT)>>, <<"done_ratio", U32>>,
               <<"due_date", OptionT(StringT)>>, <<"estimated_hours", OptionT(F32)>>,
               <<"fixed_version", OptionT(NamedObjectT)>>, <<"id", U32>>,
               <<"parent", OptionT(ObjectT)>>, <<"priority", NamedObjectT>>,
               <<"project", NamedObjectT>>, <<"start_date", OptionT(StringT)>>,
               <<"status", NamedObjectT>>, <<"subject", StringT>>,
               <<"tracker", NamedObjectT>>, <<"updated_on", StringT>> >>)
IssueListT == StructT(<< <<"issues", VecT(IssueT)>> >>)
IssueShowT == StructT(<< <<"issue", IssueT>> >>)

\* projects.rs: Project, ProjectList, ProjectShow
ProjectT ==
    StructT(<< <<"id", U32>>, <<"name", StringT>>, <<"identifier", StringT>>,
               <<"description", OptionT(StringT)>>, <<"homepage", OptionT(StringT)>>,
               <<"status", U32>>, <<"is_public", OptionT(BoolT)>>,
               <<"created_on", StringT>>, <<"updated_on", StringT>> >>)
ProjectListT == StructT(<< <<"projects", VecT(ProjectT)>> >>)
ProjectShowT == StructT(<< <<"project", ProjectT>> >>)

\* time_entries.rs: TimeEntry, TimeEntryList, TimeEntryShow
TimeEntryT ==
    StructT(<< <<"activity", NamedObjectT>>, <<"comments", StringT>>, <<"hours", F32>>,
               <<"id", U32>>, <<"issue", ObjectT>>, <<"project", NamedObjectT>>,
               <<"user", ObjectT>>, <<"spent_on", StringT>>,
               <<"created_on", StringT>>, <<"updated_on", StringT>> >>)
TimeEntryListT == StructT(<< <<"time_entries", VecT(TimeEntryT)>> >>)
TimeEntryShowT == StructT(<< <<"time_entry", TimeEntryT>> >>)

\* users.rs: User, UserList, UserShow
UserT ==
    StructT(<< <<"id", U32>>, <<"login", StringT>>, <<"firstname", StringT>>,
               <<"lastname", StringT>>, <<"mail", StringT>>, <<"created_on", StringT>>,
               <<"last_login_on", OptionT(StringT)>> >>)
UserListT == StructT(<< <<"users", VecT(UserT)>> >>)
UserShowT == StructT(<< <<"user", UserT>> >>)

----------------------------------------------------------------------------
(* The documents a redmine application answers with. *)

Named(id, name) == JObj(<< <<"id", JNum(id)>>, <<"name", JStr(name)>> >>)

\* an issue as redmine renders it, optional members left out but for one
IssueJson(id) ==
    JObj(<< <<"id", JNum(id)>>, <<"project", Named(1, "p")>>, <<"tracker", Named(1, "Bug")>>,
            <<"status", Named(1, "New")>>, <<"priority", Named(2, "Normal")>>,
            <<"author", Named(1, "admin")>>, <<"subject", JStr("subject")>>,
            <<"description", JNull>>, <<"done_ratio", JNum(0)>>,
            <<"created_on", JStr("2017-01-01")>>, <<"updated_on", JStr("2017-01-02")>> >>)

\* a list of one issue, with a member the read model does not know
IssueListJson == JObj(<< <<"issues", JArr(<<IssueJson(2)>>)>>, <<"total_count", JNum(1)>> >>)
\* a list whose first element is an issue and whose second is not
IssueListBrokenJson ==
    JObj(<< <<"issues", JArr(<<IssueJson(2), JObj(<< <<"id", JStr("x")>> >>)>>)>> >>)
IssueShowJson == JObj(<< <<"issue", IssueJson(2)>> >>)

TimeEntryJson ==
    JObj(<< <<"id", JNum(7)>>, <<"project", Named(1, "p")>>, <<"issue", JObj(<< <<"id", JNum(2)>> >>)>>,
            <<"user", JObj(<< <<"id", JNum(1)>> >>)>>, <<"activity", Named(9, "Dev")>>,
            <<"hours", JFlt(34)>>, <<"comments", JStr("")>>, <<"spent_on", JStr("2017-01-01")>>,
            <<"created_on", JStr("2017-01-01")>>, <<"updated_on", JStr("2017-01-02")>> >>)
TimeEntryListJson == JObj(<< <<"time_entries", JArr(<<TimeEntryJson>>)>> >>)

ProjectShowJson ==
    JObj(<< <<"project",
              JObj(<< <<"id", JNum(1)>>, <<"name", JStr("p")>>, <<"identifier", JStr("ident")>>,
                      <<"status", JNum(1)>>, <<"is_public", JBool(TRUE)>>,
                      <<"created_on", JStr("2017-01-01")>>,
                      <<"updated_on", JStr("2017-01-02")>> >>)>> >>)

UserListJson ==
    JObj(<< <<"users",
              JArr(<< JObj(<< <<"id", JNum(1)>>, <<"login", JStr("jdoe")>>,
                              <<"firstname", JStr("John")>>, <<"lastname", JStr("Doe")>>,
                              <<"mail", JStr("jdoe@example.org")>>,
                              <<"created_on", JStr("2017-01-01")>> >>) >>)>> >>)

Documents ==
    <<IssueListJson, IssueListBrokenJson, IssueShowJson, TimeEntryListJson,
      ProjectShowJson, UserListJson>>

\* the texts of the documents, as they travel in a response body
DocumentText == [i \in DOMAIN Documents |-> to_json_text(Documents[i])]
DocumentTexts == {DocumentText[i] : i \in DOMAIN Documents}
IssueListText == DocumentText[1]

\* serde_json's reading of a text into a value: the document the text
\* renders, a syntax error for a text that is none
read_json(text) ==
    IF \E i \in DOMAIN Documents : DocumentText[i] = text
    THEN Good(Documents[CHOOSE i \in DOMAIN Documents : DocumentText[i] = text])
    ELSE Bad

----------------------------------------------------------------------------
(* The remote server: what one round trip can come back with. *)

Statuses == {200, 201, 404}
Locations == {None, Some("/issues/42.json")}
\* bodies: empty, a text that is no JSON, and the documents
Bodies == {"", "oops"} \cup DocumentTexts

\* send() succeeded: a status line, headers and a body stream
HttpResponses ==
    [sent_ok : {TRUE}, status : Statuses, location : Locations,
     body : Bodies, body_ok : {TRUE}]
    \cup
    \* the body stream breaks while it is read
    [sent_ok : {TRUE}, status : Statuses, location : Locations,
     body : {""}, body_ok : {FALSE}]

\* send() failed: no response at all
SendFailure ==
    [sent_ok |-> FALSE, status |-> 0, location |-> None, body |-> "", body_ok |-> FALSE]

Responses == HttpResponses \cup {SendFailure}

\* One answer of each kind of outcome: no response, success with and
\* without a Location header, a status outside 2xx.
Replies ==
    {SendFailure,
     [sent_ok |-> TRUE, status |-> 201, location |-> Some("/issues/42.json"),
      body |-> "", body_ok |-> TRUE],
     [sent_ok |-> TRUE, status |-> 200, location |-> None, body |-> "oops", body_ok |-> TRUE],
     [sent_ok |-> TRUE, status |-> 404, location |-> None, body |-> "oops", body_ok |-> TRUE]}

\* One answer of each kind of outcome of a GET: no response, a list of
\* issues, a status outside 2xx with a text that is no JSON.
Listings ==
    {SendFailure,
     [sent_ok |-> TRUE, status |-> 200, location |-> None, body |-> IssueListText,
      body_ok |-> TRUE],
     [sent_ok |-> TRUE, status |-> 404, location |-> None, body |-> "oops", body_ok |-> TRUE]}

\* The two ways an exchange is seen to end when the answer's content is of
\* no interest: no response, and a response.
Outcomes ==
    {SendFailure,
     [sent_ok |-> TRUE, status |-> 404, location |-> None, body |-> "oops", body_ok |-> TRUE]}

NoResponse ==
    [sent_ok |-> FALSE, status |-> -1, location |-> None, body |-> "", body_ok |-> FALSE]

\* hyper's StatusCode::is_success
is_success(status) == status >= 200 /\ status <= 299

\* hyper's StatusCode::canonical_reason
canonical_reason(status) ==
    CASE status = 200 -> "OK"
      [] status = 201 -> "Created"
      [] status = 404 -> "Not Found"
      [] OTHER -> "<unknown status code>"

\* Display of a StatusCode, as format!("{}", response.status()) renders it
StatusDisplay(status) == to_string(status) \o " " \o canonical_reason(status)

----------------------------------------------------------------------------
(* Results: Result<T> of the error_chain of errors.rs.  An error has one   *)
(* of the kinds Msg (bail!, chain_err), Io and Reqwest (foreign links).    *)

Ok(v) == [ok |-> TRUE, val |-> <<v>>, kind |-> "", msg |-> ""]
Err(kind, msg) == [ok |-> FALSE, val |-> <<>>, kind |-> kind, msg |-> msg]
NoResult == [ok |-> FALSE, val |-> <<>>, kind |-> "none", msg |-> ""]

ErrorKinds == {"Msg", "Io", "Reqwest"}

----------------------------------------------------------------------------
(* RedmineClient. *)

\* get_base_url, but the api key is not appended
get_base_url_without_key(c, path) == [host |-> c.host, path |-> path, query |-> <<>>]

\* RedmineClient::get_base_url: host + path, with the api key as first
\* query pair
get_base_url(c, path) ==
    [host |-> c.host, path |-> path, query |-> <<<<"key", c.apikey>>>>]

\* Url::parse accepts a text that starts with a scheme (letters, then a
\* colon); a text without one is a relative url without a base, an error
Letters ==
    {"a", "b", "c", "d", "e", "f", "g", "h", "i", "j", "k", "l", "m",
     "n", "o", "p", "q", "r", "s", "t", "u", "v", "w", "x", "y", "z"}

Url_parse_ok(text) ==
    \E i \in 2..Len(text) :
        /\ SubSeq(text, i, i) = ":"
        /\ \A j \in 1..(i - 1) : SubSeq(text, j, j) \in Letters

\* form_urlencoded::byte_serialize, as append_pair applies it to a name or a
\* value: letters, digits and * - . _ stay, a space becomes +, any other
\* byte is percent-encoded
RECURSIVE byte_serialize(_)
byte_serialize(t) ==
    IF t = "" THEN ""
    ELSE LET c == SubSeq(t, 1, 1)
             e == CASE c = "," -> "%2C"
                    [] c = " " -> "+"
                    [] c = "/" -> "%2F"
                    [] OTHER -> c
         IN e \o byte_serialize(SubSeq(t, 2, Len(t)))

\* Url::as_str: the text of a url, as it is handed to the reqwest Client
as_str(url) ==
    url.host \o url.path \o "?"
        \o join([i \in DOMAIN url.query |->
                   byte_serialize(url.query[i][1]) \o "=" \o byte_serialize(url.query[i][2])],
                "&")

\* The request the reqwest RequestBuilder sends: the url in its parts (its
\* text is as_str of them), and for .json(object) the body with its
\* Content-Type header
Request(method, url, json) ==
    [method |-> method, host |-> url.host, path |-> url.path,
     query |-> url.query, json |-> json,
     headers |-> IF json = None THEN <<>>
                 ELSE << <<"Content-Type", "application/json">> >>]

\* create, but the body is handed back on success instead of the header
create_returns_body(path, r) ==
    IF ~r.sent_ok THEN Err("Msg", "Can't post to " \o path)
    ELSE IF ~is_success(r.status)
         THEN IF ~r.body_ok THEN Err("Io", "read")
              ELSE Err("Msg", "Error: " \o StatusDisplay(r.status) \o ", " \o r.body)
    ELSE IF r.location # None THEN Ok(r.body)
    ELSE Err("Msg", "Can't create issue.")

\* create, but a missing Location header is let through as an empty location
create_tolerates_missing_location(path, r) ==
    IF ~r.sent_ok THEN Err("Msg", "Can't post to " \o path)
    ELSE IF ~is_success(r.status)
         THEN IF ~r.body_ok THEN Err("Io", "read")
              ELSE Err("Msg", "Error: " \o StatusDisplay(r.status) \o ", " \o r.body)
    ELSE IF r.location # None THEN Ok(r.location[1])
    ELSE Ok("")

\* create, but the Location header is looked up before the status is checked
create_location_first(path, r) ==
    IF ~r.sent_ok THEN Err("Msg", "Can't post to " \o path)
    ELSE IF r.location # None THEN Ok(r.location[1])
    ELSE IF ~is_success(r.status)
         THEN IF ~r.body_ok THEN Err("Io", "read")
              ELSE Err("Msg", "Error: " \o StatusDisplay(r.status) \o ", " \o r.body)
    ELSE Err("Msg", "Can't create issue.")

\* RedmineClient::create: POST, then status check, then Location lookup
create(path, r) ==
    IF ~r.sent_ok THEN Err("Msg", "Can't post to " \o path)
    ELSE IF ~is_success(r.status)
         THEN IF ~r.body_ok THEN Err("Io", "read")
              ELSE Err("Msg", "Error: " \o StatusDisplay(r.status) \o ", " \o r.body)
    ELSE IF r.location # None THEN Ok(r.location[1])
    ELSE Err("Msg", "Can't create issue.")

\* update, but only 200 counts as success
update_only_200(path, r) ==
    IF ~r.sent_ok THEN Err("Reqwest", "send")
    ELSE IF r.status # 200
         THEN IF ~r.body_ok THEN Err("Io", "read")
              ELSE Err("Msg", "Error: " \o StatusDisplay(r.status) \o ", " \o r.body)
    ELSE Ok("Success")

\* RedmineClient::update: PUT, then status check
update(path, r) ==
    IF ~r.sent_ok THEN Err("Reqwest", "send")
    ELSE IF ~is_success(r.status)
         THEN IF ~r.body_ok THEN Err("Io", "read")
              ELSE Err("Msg", "Error: " \o StatusDisplay(r.status) \o ", " \o r.body)
    ELSE Ok("Success")

\* delete, but a status outside 2xx is reported as Ok(false)
delete_returns_false(path, r) ==
    IF ~r.sent_ok THEN Err("Reqwest", "send")
    ELSE IF ~is_success(r.status) THEN Ok(FALSE)
    ELSE Ok(TRUE)

\* RedmineClient::delete: DELETE, then status check
delete(path, r) ==
    IF ~r.sent_ok THEN Err("Reqwest", "send")
    ELSE IF ~is_success(r.status)
         THEN Err("Msg", "Error: " \o StatusDisplay(r.status))
    ELSE Ok(TRUE)

\* RedmineClient::post: the raw response, or the chained send error
post(path, r) ==
    IF ~r.sent_ok THEN Err("Msg", "Can't post to " \o path) ELSE Ok(r)

\* get, but a status outside 2xx is reported as create and update do
get_checks_status(path, r) ==
    IF ~r.sent_ok THEN Err("Reqwest", "send")
    ELSE IF ~r.body_ok THEN Err("Io", "read")
    ELSE IF ~is_success(r.status)
         THEN Err("Msg", "Error: " \o StatusDisplay(r.status) \o ", " \o r.body)
    ELSE Ok(r.body)

\* RedmineClient::get: the body as text, whatever the status
get(path, r) ==
    IF ~r.sent_ok THEN Err("Reqwest", "send")
    ELSE IF ~r.body_ok THEN Err("Io", "read")
    ELSE Ok(r.body)

----------------------------------------------------------------------------
NoObject == [type |-> "None"]
NotMade == [call |-> "", args |-> <<>>]
NoCall == [setter |-> "", value |-> <<>>]

\* RedmineClient::new
RedmineClient_new(host, apikey) == [host |-> host, apikey |-> apikey]

\* RedmineApi::new: the client goes behind an Rc, and each resource Api of
\* the struct gets a clone of the Rc
RedmineApi_new(c) == [issues |-> [client |-> c], time_entries |-> [client |-> c]]

\* the factory methods of the Api struct of a resource module
ApiMethods(module) ==
    CASE module = "issues" ->
            {"list", "show", "create", "update", "delete", "add_watcher", "remove_watcher"}
      [] module = "projects" -> {"list", "show", "create", "update", "delete"}
      [] module = "time_entries" -> {"list", "show", "create", "update"}
      [] module = "users" -> {"list", "show", "create", "update", "delete"}

\* The state after RedmineApi::new(host, apikey), host drawn from hosts
Construct(hosts) ==
    /\ client \in {RedmineClient_new(h, k) : h \in hosts, k \in ApiKeys}
    /\ api = RedmineApi_new(client)
    /\ obj = NoObject
    /\ made = NotMade
    /\ touched = {}
    /\ log = <<>>
    /\ calls = 0
    /\ last = NoCall
    /\ sent = <<>>
    /\ resp = NoResponse
    /\ result = NoResult

Init == Construct(Hosts)

\* A factory call of a resource Api: a fresh object bound to the client.
\* fields are the struct fields the constructor was given a value for.
\* Make, but the factory puts a request on the wire at once
Make_sends(call, args, o, fields) ==
    /\ obj.type = "None"
    /\ obj' = o
    /\ made' = [call |-> call, args |-> args]
    /\ touched' = fields
    /\ log' = <<>>
    /\ calls' = 0
    /\ last' = NoCall
    /\ sent' = <<Request("GET", get_base_url(client, "/"), None)>>
    /\ resp' = NoResponse
    /\ result' = NoResult
    /\ UNCHANGED <<client, api>>

Make(call, args, o, fields) ==
    /\ obj.type = "None"
    /\ obj' = o
    /\ made' = [call |-> call, args |-> args]
    /\ touched' = fields
    /\ log' = <<>>
    /\ calls' = 0
    /\ last' = NoCall
    /\ sent' = <<>>
    /\ resp' = NoResponse
    /\ result' = NoResult
    /\ UNCHANGED <<client, api>>

\* The live object goes out of scope (the end of the statement or block
\* that held it); the observation of the wire starts afresh.
drop ==
    /\ obj.type # "None"
    /\ obj' = NoObject
    /\ made' = NotMade
    /\ touched' = {}
    /\ log' = <<>>
    /\ calls' = 0
    /\ last' = NoCall
    /\ sent' = <<>>
    /\ resp' = NoResponse
    /\ result' = NoResult
    /\ UNCHANGED <<client, api>>

----------------------------------------------------------------------------
(* Shared shapes of the steps. *)

\* Set, but a field that already has been given a value keeps it
Set_first_wins(type, field, v) ==
    /\ obj.type = type
    /\ calls < MaxCalls
    /\ calls + Len(sent) < MaxOps
    /\ obj' = IF field \in touched THEN obj ELSE [obj EXCEPT ![field] = v]
    /\ touched' = touched \cup {field}
    /\ calls' = calls + 1
    /\ last' = [setter |-> field, value |-> v]
    /\ resp' = NoResponse
    /\ result' = NoResult
    /\ UNCHANGED <<client, api, made, log, sent>>

\* A setter: one field assigned, the object handed back for chaining.
\* resp and result describe the last step only when it was an execute.
Set(type, field, v) ==
    /\ obj.type = type
    /\ calls < MaxCalls
    /\ calls + Len(sent) < MaxOps
    /\ obj' = [obj EXCEPT ![field] = v]
    /\ touched' = touched \cup {field}
    /\ calls' = calls + 1
    /\ last' = [setter |-> field, value |-> v]
    /\ resp' = NoResponse
    /\ result' = NoResult
    /\ UNCHANGED <<client, api, made, log, sent>>

\* A setter of an id list: as Set, and the call is written to the history
\* with the ids it was given (a single id as a list of one).
SetList(type, name, field, arg, v) ==
    /\ obj.type = type
    /\ calls < MaxCalls
    /\ calls + Len(sent) < MaxOps
    /\ obj' = [obj EXCEPT ![field] = v]
    /\ touched' = touched \cup {field}
    /\ log' = Append(log, <<name, arg>>)
    /\ calls' = calls + 1
    /\ last' = [setter |-> name, value |-> arg]
    /\ resp' = NoResponse
    /\ result' = NoResult
    /\ UNCHANGED <<client, api, made, sent>>

\* One execute.  get_base_url comes first in every method of the client:
\* when the text host + path is no url, its error is returned by ? and
\* nothing is sent.  Else one round trip: the request goes out, the server
\* answers r, execute returns res.  execute takes &self: the object is left
\* as it is.
\* Exchange, but a request that went out is sent a second time
Exchange_retry(req, r, res) ==
    /\ Len(sent) < MaxExec
    /\ calls + Len(sent) < MaxOps
    /\ IF Url_parse_ok(req.host \o req.path)
       THEN /\ sent' = Append(Append(sent, req), req)
            /\ resp' = r
            /\ result' = res
       ELSE /\ sent' = sent
            /\ resp' = NoResponse
            /\ result' = Err("Msg", "Can't parse url: " \o req.host \o req.path)
    /\ UNCHANGED <<client, api, obj, made, touched, log, calls, last>>

\* Exchange, but the api key is used up by the request it went out with
Exchange_consumes_key(req, r, res) ==
    /\ Len(sent) < MaxExec
    /\ calls + Len(sent) < MaxOps
    /\ IF Url_parse_ok(req.host \o req.path)
       THEN /\ sent' = Append(sent, req)
            /\ resp' = r
            /\ result' = res
       ELSE /\ sent' = sent
            /\ resp' = NoResponse
            /\ result' = Err("Msg", "Can't parse url: " \o req.host \o req.path)
    /\ client' = [client EXCEPT !.apikey = ""]
    /\ UNCHANGED <<api, obj, made, touched, log, calls, last>>

\* Exchange, but the object is moved into the call and gone after it
Exchange_consumes(req, r, res) ==
    /\ Len(sent) < MaxExec
    /\ calls + Len(sent) < MaxOps
    /\ IF Url_parse_ok(req.host \o req.path)
       THEN /\ sent' = Append(sent, req)
            /\ resp' = r
            /\ result' = res
       ELSE /\ sent' = sent
            /\ resp' = NoResponse
            /\ result' = Err("Msg", "Can't parse url: " \o req.host \o req.path)
    /\ obj' = NoObject
    /\ UNCHANGED <<client, api, made, touched, log, calls, last>>

\* Exchange, but the id list of the object is moved out by the call
Exchange_drains_lists(req, r, res) ==
    /\ Len(sent) < MaxExec
    /\ calls + Len(sent) < MaxOps
    /\ IF Url_parse_ok(req.host \o req.path)
       THEN /\ sent' = Append(sent, req)
            /\ resp' = r
            /\ result' = res
       ELSE /\ sent' = sent
            /\ resp' = NoResponse
            /\ result' = Err("Msg", "Can't parse url: " \o req.host \o req.path)
    /\ obj' = IF "issue_id" \in DOMAIN obj /\ obj.type = "IssueFilter"
              THEN [obj EXCEPT !.issue_id = <<>>]
              ELSE IF "watcher_user_ids" \in DOMAIN obj
                   THEN [obj EXCEPT !.watcher_user_ids = <<>>]
                   ELSE obj
    /\ UNCHANGED <<client, api, made, touched, log, calls, last>>

Exchange(req, r, res) ==
    /\ Len(sent) < MaxExec
    /\ calls + Len(sent) < MaxOps
    /\ IF Url_parse_ok(req.host \o req.path)
       THEN /\ sent' = Append(sent, req)
            /\ resp' = r
            /\ result' = res
       ELSE /\ sent' = sent
            /\ resp' = NoResponse
            /\ result' = Err("Msg", "Can't parse url: " \o req.host \o req.path)
    /\ UNCHANGED <<client, api, obj, made, touched, log, calls, last>>

\* The orders in which a HashMap of the keys S can be iterated.
Orderings(S) ==
    {o \in [1..Cardinality(S) -> S] : \A i, j \in DOMAIN o : i # j => o[i] # o[j]}

----------------------------------------------------------------------------
(* serde's derived Serialize of a builder.  A schema lists the struct's    *)
(* fields with their skip attribute; "skip" is #[serde(skip_serializing)], *)
(* "always" is a field without attribute.                                  *)

\* Skipped, but a boolean field is left out while it is false
Skipped_false_omitted(rule, v) ==
    CASE rule = "skip" -> TRUE
      [] rule = "Option::is_none" -> v = None
      [] rule = "str::is_empty" -> v = ""
      [] rule = "Vec::is_empty" -> v = <<>>
      [] OTHER -> v = FALSE

\* Skipped, but a string is serialized also when it is empty
Skipped_empty_str_kept(rule, v) ==
    CASE rule = "skip" -> TRUE
      [] rule = "Option::is_none" -> v = None
      [] rule = "str::is_empty" -> FALSE
      [] rule = "Vec::is_empty" -> v = <<>>
      [] OTHER -> FALSE

\* Skipped, but an Option that holds zero is skipped as if it were None
Skipped_zero_dropped(rule, v) ==
    CASE rule = "skip" -> TRUE
      [] rule = "Option::is_none" -> v = None \/ v = Some(0)
      [] rule = "str::is_empty" -> v = ""
      [] rule = "Vec::is_empty" -> v = <<>>
      [] OTHER -> FALSE

Skipped(rule, v) ==
    CASE rule = "skip" -> TRUE
      [] rule = "Option::is_none" -> v = None
      [] rule = "str::is_empty" -> v = ""
      [] rule = "Vec::is_empty" -> v = <<>>
      [] OTHER -> FALSE

Written(rule, v) == IF rule = "Option::is_none" THEN v[1] ELSE v

RuleOf(schema, k) == (CHOOSE i \in DOMAIN schema : schema[i][1] = k)

Serialize(b, schema) ==
    [k \in {schema[i][1] : i \in {j \in DOMAIN schema : ~Skipped(schema[j][2], b[schema[j][1]])}}
        |-> Written(schema[RuleOf(schema, k)][2], b[k])]

----------------------------------------------------------------------------
(* issues.rs: IssueFilter. *)

\* IssueFilter::new: Default::default() but for the client
IssueFilter_new ==
    [type |-> "IssueFilter", client |-> client,
     assigned_to_id |-> None, issue_id |-> <<>>, parent_id |-> None,
     project_id |-> None, status_id |-> None, subproject_id |-> None,
     tracker_id |-> None]

issues_list == Make("issues.list", <<>>, IssueFilter_new, {})

IssueFilter_assigned_to_id == \E id \in Ids : Set("IssueFilter", "assigned_to_id", Some(id))

\* Vec::push
push(v, id) == Append(v, id)
\* extend, but the vector is overwritten by the new ids
extend_overwrite(v, ids) == ids

\* Vec::extend
extend(v, ids) == v \o ids

IssueFilter_issue_id ==
    \E id \in Ids \cup {1} :
        obj.type = "IssueFilter" /\
        SetList("IssueFilter", "issue_id", "issue_id", <<id>>, push(obj.issue_id, id))

IssueFilter_issue_ids ==
    \E ids \in IdLists :
        obj.type = "IssueFilter" /\
        SetList("IssueFilter", "issue_ids", "issue_id", ids, extend(obj.issue_id, ids))

IssueFilter_parent_id == \E id \in Ids : Set("IssueFilter", "parent_id", Some(id))
IssueFilter_project_id == \E id \in Ids : Set("IssueFilter", "project_id", Some(id))
IssueFilter_status_id == \E id \in Ids : Set("IssueFilter", "status_id", Some(id))
IssueFilter_subproject_id == \E id \in Ids : Set("IssueFilter", "subproject_id", Some(id))
IssueFilter_tracker_id == \E id \in Ids : Set("IssueFilter", "tracker_id", Some(id))

IssueFilterScalars ==
    {"assigned_to_id", "parent_id", "project_id", "status_id", "subproject_id", "tracker_id"}

\* IssueIdParam, but only the last id is rendered
IssueIdParam_last_only(ids) == to_string(ids[Len(ids)])

\* the comma-separated rendering of the id vector
IssueIdParam(ids) == join([i \in DOMAIN ids |-> to_string(ids[i])], ",")

\* IssueFilterParams, but every constraint is inserted, set or not
IssueFilterParams_unconditional(f) ==
    [k \in IssueFilterScalars \cup {"issue_id"}
        |-> IF k = "issue_id" THEN IssueIdParam(f.issue_id)
            ELSE IF f[k] = None THEN "" ELSE to_string(f[k][1])]

\* the params HashMap that IssueFilter::execute fills
IssueFilterParams(f) ==
    [k \in {s \in IssueFilterScalars : f[s] # None}
            \cup (IF Len(f.issue_id) > 0 THEN {"issue_id"} ELSE {})
        |-> IF k = "issue_id" THEN IssueIdParam(f.issue_id) ELSE to_string(f[k][1])]

\* RedmineClient::get's url: the base url, then the params in the
\* HashMap's iteration order o
GetUrl(c, path, params, o) ==
    [get_base_url(c, path) EXCEPT
        !.query = @ \o [i \in DOMAIN o |-> <<o[i], params[o[i]]>>]]

\* serde_json::from_str::<T>(body).chain_err(|| "Can't parse json")
from_str(T, body) ==
    LET doc == read_json(body)
    IN IF ~doc.ok THEN Err("Msg", "Can't parse json")
       ELSE LET r == deserialize(T, doc.val[1])
            IN IF r.ok THEN Ok(r.val[1]) ELSE Err("Msg", "Can't parse json")

\* get(...)? followed by from_str::<T>(...).chain_err(...)
ParseBody(T, got) == IF got.ok THEN from_str(T, got.val[1]) ELSE got

\* From<IssueShow> for Issue and the like: the deserialized field is moved
\* out of the show wrapper
into(res, field) == IF res.ok THEN Ok(res.val[1][field]) ELSE res

IssueFilter_execute(R) ==
    /\ obj.type = "IssueFilter"
    /\ \E r \in R :
       \E o \in Orderings(DOMAIN IssueFilterParams(obj)) :
          Exchange(Request("GET", GetUrl(obj.client, "/issues.json", IssueFilterParams(obj), o), None),
                   r, ParseBody(IssueListT, get("/issues.json", r)))

----------------------------------------------------------------------------
(* issues.rs: IssueBuilder. *)

IssueBuilderSchema ==
    << <<"client", "skip">>, <<"kind", "skip">>,
       <<"project_id", "Option::is_none">>, <<"tracker_id", "Option::is_none">>,
       <<"status_id", "Option::is_none">>, <<"priority_id", "Option::is_none">>,
       <<"subject", "str::is_empty">>, <<"description", "str::is_empty">>,
       <<"category_id", "Option::is_none">>, <<"fixed_version_id", "Option::is_none">>,
       <<"assigned_to_id", "Option::is_none">>, <<"parent_issue_id", "Option::is_none">>,
       <<"watcher_user_ids", "Vec::is_empty">>, <<"is_private", "always">>,
       <<"estimated_hours", "Option::is_none">>,
       <<"update_id", "skip">>, <<"notes", "str::is_empty">>,
       <<"private_notes", "always">> >>

\* #[derive(Default)] of IssueBuilder; IssueBuilderKind::default() is Create
IssueBuilder_default ==
    [type |-> "IssueBuilder", client |-> client, kind |-> "Create",
     project_id |-> None, tracker_id |-> None, status_id |-> None,
     priority_id |-> None, subject |-> "", description |-> "",
     category_id |-> None, fixed_version_id |-> None, assigned_to_id |-> None,
     parent_issue_id |-> None, watcher_user_ids |-> <<>>, is_private |-> FALSE,
     estimated_hours |-> None, update_id |-> 0, notes |-> "",
     private_notes |-> FALSE]

IssueBuilder_for_create(project_id, tracker_id, status_id, priority_id, subject) ==
    [IssueBuilder_default EXCEPT
        !.kind = "Create",
        !.project_id = Some(project_id), !.tracker_id = Some(tracker_id),
        !.status_id = Some(status_id), !.priority_id = Some(priority_id),
        !.subject = subject]

\* for_update, but kind is left to Default::default()
IssueBuilder_for_update_default_kind(id) ==
    [IssueBuilder_default EXCEPT !.update_id = id]

IssueBuilder_for_update(id) ==
    [IssueBuilder_default EXCEPT !.kind = "Update", !.update_id = id]

\* arguments of issues().create(...): the four required ids and a subject
IssueCreateArgs == {<<1, 2, 3, 4, "subject">>, <<1, 1, 1, 1, "">>}

issues_create ==
    \E a \in IssueCreateArgs :
        Make("issues.create", a, IssueBuilder_for_create(a[1], a[2], a[3], a[4], a[5]),
             {"project_id", "tracker_id", "status_id", "priority_id", "subject"})

issues_update == \E id \in Ids : Make("issues.update", <<id>>, IssueBuilder_for_update(id), {"update_id"})

IssueBuilder_project_id == \E id \in Ids : Set("IssueBuilder", "project_id", Some(id))
IssueBuilder_tracker_id == \E id \in Ids : Set("IssueBuilder", "tracker_id", Some(id))
IssueBuilder_status_id == \E id \in Ids : Set("IssueBuilder", "status_id", Some(id))
IssueBuilder_priority_id == \E id \in Ids : Set("IssueBuilder", "priority_id", Some(id))
IssueBuilder_subject == \E s \in Strs : Set("IssueBuilder", "subject", s)
IssueBuilder_description == \E s \in Strs : Set("IssueBuilder", "description", s)
IssueBuilder_category_id == \E id \in Ids : Set("IssueBuilder", "category_id", Some(id))
IssueBuilder_fixed_version_id == \E id \in Ids : Set("IssueBuilder", "fixed_version_id", Some(id))
IssueBuilder_assigned_to_id == \E id \in Ids : Set("IssueBuilder", "assigned_to_id", Some(id))
IssueBuilder_parent_issue_id == \E id \in Ids : Set("IssueBuilder", "parent_issue_id", Some(id))

\* assign, but the ids are added to the ones the vector holds
assign_extend(v, ids) == v \o ids

\* self.watcher_user_ids = ids
assign(v, ids) == ids

IssueBuilder_watcher_user_ids ==
    \E ids \in IdLists :
        obj.type = "IssueBuilder" /\
        SetList("IssueBuilder", "watcher_user_ids", "watcher_user_ids", ids,
                assign(obj.watcher_user_ids, ids))

IssueBuilder_add_watcher_user_id ==
    \E id \in Ids :
        obj.type = "IssueBuilder" /\
        SetList("IssueBuilder", "add_watcher_user_id", "watcher_user_ids", <<id>>,
                push(obj.watcher_user_ids, id))

IssueBuilder_is_private == \E b \in BOOLEAN : Set("IssueBuilder", "is_private", b)
IssueBuilder_estimated_hours == \E eh \in Floats : Set("IssueBuilder", "estimated_hours", Some(eh))
IssueBuilder_notes == \E n \in Strs : Set("IssueBuilder", "notes", n)
IssueBuilder_private_notes == \E b \in BOOLEAN : Set("IssueBuilder", "private_notes", b)

\* BuilderExecute, but the builder itself is serialized as the json body
BuilderExecute_no_wrapper(type, envelope, schema, collection, member, R) ==
    /\ obj.type = type
    /\ \E r \in R :
        LET json == Some(Serialize(obj, schema))
            path == IF obj.kind = "Create" THEN collection
                    ELSE member \o to_string(obj.update_id) \o ".json"
        IN IF obj.kind = "Create"
           THEN Exchange(Request("POST", get_base_url(obj.client, path), json),
                         r, create(path, r))
           ELSE Exchange(Request("PUT", get_base_url(obj.client, path), json),
                         r, update(path, r))

\* BuilderExecute, but the kind is not looked at: every builder is created
BuilderExecute_always_create(type, envelope, schema, collection, member, R) ==
    /\ obj.type = type
    /\ \E r \in R :
        LET json == Some([k \in {envelope} |-> Serialize(obj, schema)])
        IN Exchange(Request("POST", get_base_url(obj.client, collection), json),
                    r, create(collection, r))

\* What a builder's execute does: the wrapper struct around the builder is
\* serialized as the json body; Create goes to RedmineClient::create with
\* the collection path, Update to RedmineClient::update with the path of
\* update_id.
BuilderExecute(type, envelope, schema, collection, member, R) ==
    /\ obj.type = type
    /\ \E r \in R :
        LET json == Some([k \in {envelope} |-> Serialize(obj, schema)])
            path == IF obj.kind = "Create" THEN collection
                    ELSE member \o to_string(obj.update_id) \o ".json"
        IN IF obj.kind = "Create"
           THEN Exchange(Request("POST", get_base_url(obj.client, path), json),
                         r, create(path, r))
           ELSE Exchange(Request("PUT", get_base_url(obj.client, path), json),
                         r, update(path, r))

IssueBuilder_execute(R) ==
    BuilderExecute("IssueBuilder", "issue", IssueBuilderSchema, "/issues.json", "/issues/", R)

----------------------------------------------------------------------------
(* issues.rs: IssueDelete, IssueAddWatcher, IssueRemoveWatcher. *)

issues_delete ==
    \E id \in Ids :
        Make("issues.delete", <<id>>, [type |-> "IssueDelete", client |-> client, delete_id |-> id], {"delete_id"})

\* What a delete executor's execute does: RedmineClient::delete on the path
DeleteExecute(type, path, R) ==
    /\ obj.type = type
    /\ \E r \in R :
        Exchange(Request("DELETE", get_base_url(obj.client, path), None), r, delete(path, r))

IssueDelete_execute(R) ==
    obj.type = "IssueDelete" /\
    DeleteExecute("IssueDelete", "/issues/" \o to_string(obj.delete_id) \o ".json", R)

issues_add_watcher ==
    \E issue_id \in Ids, watcher_id \in Ids :
        Make("issues.add_watcher", <<issue_id, watcher_id>>, [type |-> "IssueAddWatcher", client |-> client,
              issue_id |-> issue_id, watcher_id |-> watcher_id],
             {"issue_id", "watcher_id"})

\* AddWatcherResult, but the status of the answer is not looked at
AddWatcherResult_unchecked(posted) ==
    IF ~posted.ok THEN posted ELSE Ok(TRUE)

\* IssueAddWatcher::execute after the post: the status is checked by hand
AddWatcherResult(posted) ==
    IF ~posted.ok THEN posted
    ELSE IF ~is_success(posted.val[1].status)
         THEN Err("Msg", "Error: " \o StatusDisplay(posted.val[1].status))
    ELSE Ok(TRUE)

IssueAddWatcher_execute(R) ==
    /\ obj.type = "IssueAddWatcher"
    /\ \E r \in R :
        LET path == "/issues/" \o to_string(obj.issue_id) \o "/watchers.json"
        IN Exchange(Request("POST", get_base_url(obj.client, path),
                            Some([user_id |-> obj.watcher_id])),
                    r, AddWatcherResult(post(path, r)))

issues_remove_watcher ==
    \E issue_id \in Ids, watcher_id \in Ids :
        Make("issues.remove_watcher", <<issue_id, watcher_id>>, [type |-> "IssueRemoveWatcher", client |-> client,
              issue_id |-> issue_id, watcher_id |-> watcher_id],
             {"issue_id", "watcher_id"})

IssueRemoveWatcher_execute(R) ==
    obj.type = "IssueRemoveWatcher" /\
    DeleteExecute("IssueRemoveWatcher",
                  "/issues/" \o to_string(obj.issue_id) \o "/watchers/"
                      \o to_string(obj.watcher_id) \o ".json", R)

----------------------------------------------------------------------------
(* issues.rs: IssueShow. *)

\* What a show executor's execute does: RedmineClient::get on the path with
\* no params, then the body is parsed
ShowExecute(type, path, T, field, R) ==
    /\ obj.type = type
    /\ \E r \in R :
        Exchange(Request("GET", get_base_url(obj.client, path), None),
                 r, into(ParseBody(T, get(path, r)), field))

\* What a list executor without filters does: RedmineClient::get on the
\* path with no params, then the body is parsed into the list
ListExecute(type, path, T, R) ==
    /\ obj.type = type
    /\ \E r \in R :
        Exchange(Request("GET", get_base_url(obj.client, path), None),
                 r, ParseBody(T, get(path, r)))

issues_show ==
    \E id \in Ids :
        Make("issues.show", <<id>>, [type |-> "IssueShow", client |-> client, show_id |-> id], {"show_id"})

IssueShow_execute(R) ==
    obj.type = "IssueShow" /\
    ShowExecute("IssueShow", "/issues/" \o to_string(obj.show_id) \o ".json",
                IssueShowT, "issue", R)

----------------------------------------------------------------------------
(* projects.rs. *)

projects_list == Make("projects.list", <<>>, [type |-> "ProjectListExecutor", client |-> client], {})

ProjectListExecutor_execute(R) ==
    ListExecute("ProjectListExecutor", "/projects.json", ProjectListT, R)

projects_show ==
    \E id \in Ids :
        Make("projects.show", <<id>>, [type |-> "ProjectShow", client |-> client, show_id |-> id], {"show_id"})

ProjectShow_execute(R) ==
    obj.type = "ProjectShow" /\
    ShowExecute("ProjectShow", "/projects/" \o to_string(obj.show_id) \o ".json",
                ProjectShowT, "project", R)

projects_delete ==
    \E id \in Ids :
        Make("projects.delete", <<id>>, [type |-> "ProjectDelete", client |-> client, delete_id |-> id], {"delete_id"})

ProjectDelete_execute(R) ==
    obj.type = "ProjectDelete" /\
    DeleteExecute("ProjectDelete", "/projects/" \o to_string(obj.delete_id) \o ".json", R)

ProjectBuilderSchema ==
    << <<"client", "skip">>, <<"kind", "skip">>, <<"update_id", "skip">>,
       <<"name", "str::is_empty">>, <<"identifier", "str::is_empty">>,
       <<"description", "str::is_empty">>, <<"homepage", "str::is_empty">>,
       <<"is_public", "always">>, <<"parent_id", "Option::is_none">>,
       <<"inherit_members", "always">> >>

ProjectBuilder_default ==
    [type |-> "ProjectBuilder", client |-> client, kind |-> "Create", update_id |-> 0,
     name |-> "", identifier |-> "", description |-> "", homepage |-> "",
     is_public |-> FALSE, parent_id |-> None, inherit_members |-> FALSE]

ProjectBuilder_for_create(name, identifier) ==
    [ProjectBuilder_default EXCEPT
        !.kind = "Create", !.name = name, !.identifier = identifier]

ProjectBuilder_for_update(id) ==
    [ProjectBuilder_default EXCEPT !.kind = "Update", !.update_id = id]

projects_create ==
    \E name \in Strs, identifier \in {"ident"} :
        Make("projects.create", <<name, identifier>>, ProjectBuilder_for_create(name, identifier), {"name", "identifier"})

projects_update == \E id \in Ids : Make("projects.update", <<id>>, ProjectBuilder_for_update(id), {"update_id"})

ProjectBuilder_name == \E s \in Strs : Set("ProjectBuilder", "name", s)
ProjectBuilder_identifier == \E s \in Strs : Set("ProjectBuilder", "identifier", s)
ProjectBuilder_description == \E s \in Strs : Set("ProjectBuilder", "description", s)
ProjectBuilder_homepage == \E s \in Strs : Set("ProjectBuilder", "homepage", s)
ProjectBuilder_is_public == \E b \in BOOLEAN : Set("ProjectBuilder", "is_public", b)
ProjectBuilder_parent_id == \E id \in Ids : Set("ProjectBuilder", "parent_id", Some(id))
ProjectBuilder_inherit_members == \E b \in BOOLEAN : Set("ProjectBuilder", "inherit_members", b)

ProjectBuilder_execute(R) ==
    BuilderExecute("ProjectBuilder", "project", ProjectBuilderSchema,
                   "/projects.json", "/projects/", R)

----------------------------------------------------------------------------
(* time_entries.rs. *)

TimeEntryFilter_new ==
    [type |-> "TimeEntryFilter", client |-> client, user_id |-> None, project_id |-> None]

time_entries_list == Make("time_entries.list", <<>>, TimeEntryFilter_new, {})

TimeEntryFilter_user_id == \E id \in Ids : Set("TimeEntryFilter", "user_id", Some(id))
TimeEntryFilter_project_id == \E id \in Ids : Set("TimeEntryFilter", "project_id", Some(id))

TimeEntryFilterParams(f) ==
    [k \in {s \in {"user_id", "project_id"} : f[s] # None} |-> to_string(f[k][1])]

TimeEntryFilter_execute(R) ==
    /\ obj.type = "TimeEntryFilter"
    /\ \E r \in R :
       \E o \in Orderings(DOMAIN TimeEntryFilterParams(obj)) :
          Exchange(Request("GET", GetUrl(obj.client, "/time_entries.json",
                                         TimeEntryFilterParams(obj), o), None),
                   r, ParseBody(TimeEntryListT, get("/time_entries.json", r)))

time_entries_show ==
    \E id \in Ids :
        Make("time_entries.show", <<id>>, [type |-> "TimeEntryShow", client |-> client, show_id |-> id], {"show_id"})

TimeEntryShow_execute(R) ==
    obj.type = "TimeEntryShow" /\
    ShowExecute("TimeEntryShow", "/time_entries/" \o to_string(obj.show_id) \o ".json",
                TimeEntryShowT, "time_entry", R)

TimeEntryBuilderSchema ==
    << <<"client", "skip">>, <<"kind", "skip">>, <<"update_id", "skip">>,
       <<"issue_id", "Option::is_none">>, <<"hours", "Option::is_none">>,
       <<"activity_id", "Option::is_none">>, <<"spent_on", "str::is_empty">>,
       <<"comments", "str::is_empty">> >>

TimeEntryBuilder_default ==
    [type |-> "TimeEntryBuilder", client |-> client, kind |-> "Create", update_id |-> 0,
     issue_id |-> None, hours |-> None, activity_id |-> None,
     spent_on |-> "", comments |-> ""]

\* kind is left to Default::default(), which is Create
TimeEntryBuilder_for_create(issue_id, hours, activity_id) ==
    [TimeEntryBuilder_default EXCEPT
        !.issue_id = Some(issue_id), !.hours = Some(hours),
        !.activity_id = Some(activity_id)]

\* for_update, but kind is left to Default::default()
TimeEntryBuilder_for_update_default_kind(id) ==
    [TimeEntryBuilder_default EXCEPT !.update_id = id]

TimeEntryBuilder_for_update(id) ==
    [TimeEntryBuilder_default EXCEPT !.kind = "Update", !.update_id = id]

time_entries_create ==
    \E issue_id \in Ids, hours \in Floats, activity_id \in {9} :
        Make("time_entries.create", <<issue_id, hours, activity_id>>, TimeEntryBuilder_for_create(issue_id, hours, activity_id),
             {"issue_id", "hours", "activity_id"})

time_entries_update == \E id \in Ids : Make("time_entries.update", <<id>>, TimeEntryBuilder_for_update(id), {"update_id"})

TimeEntryBuilder_spent_on == \E s \in Strs : Set("TimeEntryBuilder", "spent_on", s)
TimeEntryBuilder_comments == \E s \in Strs : Set("TimeEntryBuilder", "comments", s)

TimeEntryBuilder_execute(R) ==
    BuilderExecute("TimeEntryBuilder", "time_entry", TimeEntryBuilderSchema,
                   "/time_entries.json", "/time_entries/", R)

----------------------------------------------------------------------------
(* users.rs. *)

users_list == Make("users.list", <<>>, [type |-> "UserFilter", client |-> client], {})

UserFilter_execute(R) == ListExecute("UserFilter", "/users.json", UserListT, R)

users_show ==
    \E id \in Ids :
        Make("users.show", <<id>>, [type |-> "UserShow", client |-> client, show_id |-> id], {"show_id"})

UserShow_execute(R) ==
    obj.type = "UserShow" /\
    ShowExecute("UserShow", "/users/" \o to_string(obj.show_id) \o ".json",
                UserShowT, "user", R)

users_delete ==
    \E id \in Ids :
        Make("users.delete", <<id>>, [type |-> "UserDelete", client |-> client, delete_id |-> id], {"delete_id"})

UserDelete_execute(R) ==
    obj.type = "UserDelete" /\
    DeleteExecute("UserDelete", "/users/" \o to_string(obj.delete_id) \o ".json", R)

UserBuilderSchema ==
    << <<"client", "skip">>, <<"kind", "skip">>, <<"update_id", "skip">>,
       <<"login", "str::is_empty">>, <<"firstname", "str::is_empty">>,
       <<"lastname", "str::is_empty">>, <<"mail", "str::is_empty">>,
       <<"password", "str::is_empty">>, <<"auth_source_id", "Option::is_none">>,
       <<"must_change_passwd", "always">>, <<"generate_password", "always">> >>

UserBuilder_default ==
    [type |-> "UserBuilder", client |-> client, kind |-> "Create", update_id |-> 0,
     login |-> "", firstname |-> "", lastname |-> "", mail |-> "", password |-> "",
     auth_source_id |-> None, must_change_passwd |-> FALSE,
     generate_password |-> FALSE]

UserBuilder_for_create(login, firstname, lastname, mail) ==
    [UserBuilder_default EXCEPT
        !.kind = "Create", !.login = login, !.firstname = firstname,
        !.lastname = lastname, !.mail = mail]

UserBuilder_for_update(id) ==
    [UserBuilder_default EXCEPT !.kind = "Update", !.update_id = id]

\* arguments of users().create(...): login, firstname, lastname, mail
UserCreateArgs == {<<"jdoe", "John", "Doe", "jdoe@example.org">>, <<"", "", "", "">>}

users_create ==
    \E a \in UserCreateArgs :
        Make("users.create", a, UserBuilder_for_create(a[1], a[2], a[3], a[4]),
             {"login", "firstname", "lastname", "mail"})

users_update == \E id \in Ids : Make("users.update", <<id>>, UserBuilder_for_update(id), {"update_id"})

UserBuilder_login == \E s \in Strs : Set("UserBuilder", "login", s)
UserBuilder_firstname == \E s \in Strs : Set("UserBuilder", "firstname", s)
UserBuilder_lastname == \E s \in Strs : Set("UserBuilder", "lastname", s)
UserBuilder_mail == \E s \in Strs : Set("UserBuilder", "mail", s)
UserBuilder_password == \E s \in Strs : Set("UserBuilder", "password", s)
UserBuilder_auth_source_id == \E id \in Ids : Set("UserBuilder", "auth_source_id", Some(id))
UserBuilder_must_change_passwd == \E b \in BOOLEAN : Set("UserBuilder", "must_change_passwd", b)
UserBuilder_generate_password == \E b \in BOOLEAN : Set("UserBuilder", "generate_password", b)

UserBuilder_execute(R) ==
    BuilderExecute("UserBuilder", "user", UserBuilderSchema, "/users.json", "/users/", R)

----------------------------------------------------------------------------
(* The read side: lists and shows, the filters with their setters.         *)

NextRead(R) ==
    \/ issues_list
    \/ IssueFilter_assigned_to_id
    \/ IssueFilter_issue_id
    \/ IssueFilter_issue_ids
    \/ IssueFilter_parent_id
    \/ IssueFilter_project_id
    \/ IssueFilter_status_id
    \/ IssueFilter_subproject_id
    \/ IssueFilter_tracker_id
    \/ IssueFilter_execute(R)
    \/ issues_show
    \/ IssueShow_execute(R)
    \/ projects_list
    \/ ProjectListExecutor_execute(R)
    \/ projects_show
    \/ ProjectShow_execute(R)
    \/ time_entries_list
    \/ TimeEntryFilter_user_id
    \/ TimeEntryFilter_project_id
    \/ TimeEntryFilter_execute(R)
    \/ time_entries_show
    \/ TimeEntryShow_execute(R)
    \/ users_list
    \/ UserFilter_execute(R)
    \/ users_show
    \/ UserShow_execute(R)

(* The write side: creates, updates, deletes and watcher actions, the      *)
(* builders with their setters.                                            *)

NextWrite(R) ==
    \/ issues_create
    \/ issues_update
    \/ IssueBuilder_project_id
    \/ IssueBuilder_tracker_id
    \/ IssueBuilder_status_id
    \/ IssueBuilder_priority_id
    \/ IssueBuilder_subject
    \/ IssueBuilder_description
    \/ IssueBuilder_category_id
    \/ IssueBuilder_fixed_version_id
    \/ IssueBuilder_assigned_to_id
    \/ IssueBuilder_parent_issue_id
    \/ IssueBuilder_watcher_user_ids
    \/ IssueBuilder_add_watcher_user_id
    \/ IssueBuilder_is_private
    \/ IssueBuilder_estimated_hours
    \/ IssueBuilder_notes
    \/ IssueBuilder_private_notes
    \/ IssueBuilder_execute(R)
    \/ issues_delete
    \/ IssueDelete_execute(R)
    \/ issues_add_watcher
    \/ IssueAddWatcher_execute(R)
    \/ issues_remove_watcher
    \/ IssueRemoveWatcher_execute(R)
    \/ projects_delete
    \/ ProjectDelete_execute(R)
    \/ projects_create
    \/ projects_update
    \/ ProjectBuilder_name
    \/ ProjectBuilder_identifier
    \/ ProjectBuilder_description
    \/ ProjectBuilder_homepage
    \/ ProjectBuilder_is_public
    \/ ProjectBuilder_parent_id
    \/ ProjectBuilder_inherit_members
    \/ ProjectBuilder_execute(R)
    \/ time_entries_create
    \/ time_entries_update
    \/ TimeEntryBuilder_spent_on
    \/ TimeEntryBuilder_comments
    \/ TimeEntryBuilder_execute(R)
    \/ users_delete
    \/ UserDelete_execute(R)
    \/ users_create
    \/ users_update
    \/ UserBuilder_login
    \/ UserBuilder_firstname
    \/ UserBuilder_lastname
    \/ UserBuilder_mail
    \/ UserBuilder_password
    \/ UserBuilder_auth_source_id
    \/ UserBuilder_must_change_passwd
    \/ UserBuilder_generate_password
    \/ UserBuilder_execute(R)

(* The program: any factory call, any setter of the live object, execute.  *)

Next == NextRead(Outcomes) \/ NextWrite(Outcomes) \/ drop

Spec == Construct({"http://localhost:8080"}) /\ [][Next]_vars

(* Setter sequences are explored with a host that is a url, against one    *)
(* answer of each kind: the filters on their own, and the builders on      *)
(* their own.                                                              *)

SpecRead == Construct({"http://localhost:8080"}) /\ [][NextRead(Listings) \/ drop]_vars

SpecWrite == Construct({"http://localhost:8080"}) /\ [][NextWrite(Replies) \/ drop]_vars

(* The wire: every object executed as the factory made it, with every      *)
(* host, against every response of the server.                             *)

NextWire ==
    \/ issues_list
    \/ IssueFilter_execute(Responses)
    \/ issues_show
    \/ IssueShow_execute(Responses)
    \/ issues_create
    \/ issues_update
    \/ IssueBuilder_execute(Responses)
    \/ issues_delete
    \/ IssueDelete_execute(Responses)
    \/ issues_add_watcher
    \/ IssueAddWatcher_execute(Responses)
    \/ issues_remove_watcher
    \/ IssueRemoveWatcher_execute(Responses)
    \/ projects_list
    \/ ProjectListExecutor_execute(Responses)
    \/ projects_show
    \/ ProjectShow_execute(Responses)
    \/ projects_delete
    \/ ProjectDelete_execute(Responses)
    \/ projects_create
    \/ projects_update
    \/ ProjectBuilder_execute(Responses)
    \/ time_entries_list
    \/ TimeEntryFilter_execute(Responses)
    \/ time_entries_show
    \/ TimeEntryShow_execute(Responses)
    \/ time_entries_create
    \/ time_entries_update
    \/ TimeEntryBuilder_execute(Responses)
    \/ users_list
    \/ UserFilter_execute(Responses)
    \/ users_show
    \/ UserShow_execute(Responses)
    \/ users_delete
    \/ UserDelete_execute(Responses)
    \/ users_create
    \/ users_update
    \/ UserBuilder_execute(Responses)
    \/ drop

SpecWire == Init /\ [][NextWire]_vars

----------------------------------------------------------------------------
(* Vocabulary of the properties. *)

BuilderTypes == {"IssueBuilder", "ProjectBuilder", "TimeEntryBuilder", "UserBuilder"}
CreateCalls == {"issues.create", "projects.create", "time_entries.create", "users.create"}
UpdateCalls == {"issues.update", "projects.update", "time_entries.update", "users.update"}
DeleteCalls == {"issues.delete", "projects.delete", "users.delete"}
WatcherCalls == {"issues.add_watcher", "issues.remove_watcher"}

SchemaOf(type) ==
    CASE type = "IssueBuilder" -> IssueBuilderSchema
      [] type = "ProjectBuilder" -> ProjectBuilderSchema
      [] type = "TimeEntryBuilder" -> TimeEntryBuilderSchema
      [] type = "UserBuilder" -> UserBuilderSchema

FieldsOf(type) == {SchemaOf(type)[i][1] : i \in DOMAIN SchemaOf(type)}

\* the envelope key and the resource path of a create / update call
EnvelopeOf(call) ==
    CASE call \in {"issues.create", "issues.update"} -> "issue"
      [] call \in {"projects.create", "projects.update"} -> "project"
      [] call \in {"time_entries.create", "time_entries.update"} -> "time_entry"
      [] call \in {"users.create", "users.update"} -> "user"

ResourceOf(call) ==
    CASE call \in {"issues.create", "issues.update"} -> "/issues"
      [] call \in {"projects.create", "projects.update"} -> "/projects"
      [] call \in {"time_entries.create", "time_entries.update"} -> "/time_entries"
      [] call \in {"users.create", "users.update"} -> "/users"

\* the boolean fields of the four builders
BooleanKeys ==
    {"is_private", "private_notes", "is_public", "inherit_members",
     "must_change_passwd", "generate_password"}

Is2xx(status) == status \in 200..299

\* the last step was an execute: its response and result are in resp, result
Executed == result # NoResult

\* this step is an execute of the live object: one more request is on the wire
ExecuteStep == Len(sent') = Len(sent) + 1

\* the ids of the id-list setter calls of the history, in call order
RECURSIVE PassedIds(_)
PassedIds(l) == IF l = <<>> THEN <<>> ELSE l[1][2] \o PassedIds(Tail(l))

\* the comma-joined decimal rendering of a list of ids
RECURSIVE CommaJoined(_)
CommaJoined(ids) ==
    IF Len(ids) = 0 THEN ""
    ELSE IF Len(ids) = 1 THEN ToString(ids[1])
    ELSE CommaJoined(SubSeq(ids, 1, Len(ids) - 1)) \o "," \o ToString(ids[Len(ids)])

\* the request has exactly one query parameter k, and its value is v
HasOneParam(req, k, v) ==
    /\ Cardinality({i \in DOMAIN req.query : req.query[i][1] = k}) = 1
    /\ \A i \in DOMAIN req.query : req.query[i][1] = k => req.query[i][2] = v

----------------------------------------------------------------------------
(* C1: issue_id(id) and issue_ids(list) accumulate: when an issue filter   *)
(* that was given at least one id executes, its request has one issue_id   *)
(* query parameter, the comma-joined decimal rendering of all the ids      *)
(* passed so far, in call order.                                           *)
C1_IssueIdsAccumulate ==
    [][(obj.type = "IssueFilter" /\ ExecuteStep /\ PassedIds(log) # <<>>)
        => HasOneParam(sent'[Len(sent')], "issue_id", CommaJoined(PassedIds(log)))]_vars

\* [1] then [2,3] were added and the executed request carries "1,2,3"
C1_Witness ==
    /\ obj.type = "IssueFilter"
    /\ log = << <<"issue_ids", <<1>> >>, <<"issue_ids", <<2, 3>> >> >>
    /\ Len(sent) = 1
    /\ HasOneParam(sent[1], "issue_id", "1,2,3")

(* C2: when a write builder executes, no field that neither the            *)
(* constructor nor a setter was given a value for is in the payload sent.  *)
C2_DefaultOmission ==
    [][(obj.type \in BuilderTypes /\ ExecuteStep)
        => \A f \in FieldsOf(obj.type) \ touched :
              f \notin DOMAIN sent'[Len(sent')].json[1][EnvelopeOf(made.call)]]_vars

(* C3: an issue builder made by create with a non-empty subject and no     *)
(* setter called serializes to the keys project_id, tracker_id, status_id, *)
(* priority_id, subject, is_private, private_notes and no other, the two   *)
(* booleans being false; that is the payload every execute of it sends.    *)
C3_CreateIssueKeys ==
    (made.call = "issues.create" /\ calls = 0 /\ made.args[5] # "")
    => LET p == Serialize(obj, IssueBuilderSchema)
       IN /\ DOMAIN p = {"project_id", "tracker_id", "status_id", "priority_id",
                         "subject", "is_private", "private_notes"}
          /\ p.is_private = FALSE
          /\ p.private_notes = FALSE
          /\ \A i \in DOMAIN sent : sent[i].json = Some([issue |-> p])

C3_Witness ==
    /\ made.call = "issues.create"
    /\ made.args = <<1, 2, 3, 4, "subject">>
    /\ calls = 0
    /\ Len(sent) = 1
    /\ sent[1].json[1].issue =
         [project_id |-> 1, tracker_id |-> 2, status_id |-> 3, priority_id |-> 4,
          subject |-> "subject", is_private |-> FALSE, private_notes |-> FALSE]

(* C4: an update builder executed with no setter called sends PUT requests *)
(* to the resource path with the id appended, <resource>/<id>.json, whose  *)
(* enveloped payload has no key but boolean fields at their default false. *)
C4_BareUpdate ==
    (made.call \in UpdateCalls /\ calls = 0)
    => \A i \in DOMAIN sent :
          /\ sent[i].method = "PUT"
          /\ sent[i].path = ResourceOf(made.call) \o "/" \o ToString(made.args[1]) \o ".json"
          /\ sent[i].json # None
          /\ DOMAIN sent[i].json[1] = {EnvelopeOf(made.call)}
          /\ \A k \in DOMAIN sent[i].json[1][EnvelopeOf(made.call)] :
                /\ k \in BooleanKeys
                /\ sent[i].json[1][EnvelopeOf(made.call)][k] = FALSE

\* a bare time entry update of id 12 went out, with an empty payload
C4_Witness ==
    /\ made.call = "time_entries.update"
    /\ made.args = <<12>>
    /\ calls = 0
    /\ Len(sent) = 1
    /\ sent[1].method = "PUT"
    /\ sent[1].path = "/time_entries/12.json"
    /\ DOMAIN sent[1].json[1].time_entry = {}

(* C5: the execute of a create builder answered by a 2xx status with a     *)
(* Location header returns the value of that header, whatever the body.    *)
C5_CreateReturnsLocation ==
    (made.call \in CreateCalls /\ Executed /\ resp.sent_ok /\ Is2xx(resp.status)
        /\ resp.location # None)
    => result.ok /\ result.val = resp.location

\* 201 with Location /issues/42.json and a body: the result is the header
C5_Witness ==
    /\ made.call = "issues.create"
    /\ Executed
    /\ resp.sent_ok /\ resp.status = 201 /\ resp.body = "oops"
    /\ resp.location = Some("/issues/42.json")
    /\ result.ok /\ result.val = <<"/issues/42.json">>

\* the responses on which create fails for another reason than a missing
\* Location header: no response at all, or a status outside 2xx
OtherCreateFailures == {r \in Responses : ~r.sent_ok \/ ~Is2xx(r.status)}

(* C6, as claimed: create on a 2xx response without Location fails with an *)
(* error whose kind differs from the kind of the error for a status        *)
(* outside 2xx and from the kind of the error for a failed send.           *)
C6_ProtocolErrorKind ==
    (made.call \in CreateCalls /\ Executed /\ resp.sent_ok /\ Is2xx(resp.status)
        /\ resp.location = None)
    => /\ ~result.ok
       /\ \A r \in OtherCreateFailures :
             create(sent[Len(sent)].path, r).kind # result.kind

(* C6, amended: create on a 2xx response without Location never returns a  *)
(* success value; it fails with the message error "Can't create issue.",   *)
(* of the same kind (Msg) as the other failures of create and told from    *)
(* them by its message alone.                                              *)
C6_MissingLocationFails ==
    (made.call \in CreateCalls /\ Executed /\ resp.sent_ok /\ Is2xx(resp.status)
        /\ resp.location = None)
    => /\ ~result.ok
       /\ result.kind = "Msg"
       /\ result.msg = "Can't create issue."
       /\ \A r \in OtherCreateFailures :
             create(sent[Len(sent)].path, r).msg # result.msg

C6_Witness ==
    /\ made.call = "issues.create"
    /\ Executed
    /\ resp.sent_ok /\ resp.status = 201 /\ resp.location = None
    /\ ~result.ok /\ result.msg = "Can't create issue."

(* C7: the execute of a create builder answered by a status outside 2xx,   *)
(* the body of the response read, fails with an error that carries the     *)
(* status code and the body, also when the response has a Location header. *)
C7_CreateApiError ==
    (made.call \in CreateCalls /\ Executed /\ resp.sent_ok /\ resp.body_ok
        /\ ~Is2xx(resp.status))
    => /\ ~result.ok
       /\ result.kind = "Msg"
       /\ Contains(result.msg, ToString(resp.status))
       /\ Contains(result.msg, resp.body)

\* 404 with a Location header and a body: an error with "404" and the body
C7_Witness ==
    /\ made.call = "issues.create"
    /\ Executed
    /\ resp.sent_ok /\ resp.status = 404 /\ resp.body = "oops"
    /\ resp.location # None
    /\ ~result.ok /\ Contains(result.msg, "404") /\ Contains(result.msg, "oops")

(* C8: the execute of an update builder that got a response returns the    *)
(* confirmation "Success" exactly when the status is 2xx, whatever the     *)
(* body; on a status outside 2xx, the body read, it fails with an error    *)
(* that carries the status code and the body.                              *)
C8_UpdateResult ==
    (made.call \in UpdateCalls /\ Executed /\ resp.sent_ok)
    => /\ result.ok <=> Is2xx(resp.status)
       /\ result.ok => result.val = <<"Success">>
       /\ (~Is2xx(resp.status) /\ resp.body_ok)
             => /\ result.kind = "Msg"
                /\ Contains(result.msg, ToString(resp.status))
                /\ Contains(result.msg, resp.body)

\* 201 with a body on an update: success
C8_Witness ==
    /\ made.call = "issues.update"
    /\ Executed
    /\ resp.sent_ok /\ resp.status = 201 /\ resp.body = "oops"
    /\ result.ok /\ result.val = <<"Success">>

(* C9: the execute of a delete never returns false; when it got a response *)
(* it returns true exactly when the status is 2xx and fails otherwise with *)
(* an error that carries the status code.                                  *)
C9_DeleteResult ==
    (made.call \in DeleteCalls /\ Executed)
    => /\ result.ok => result.val = <<TRUE>>
       /\ resp.sent_ok
             => /\ result.ok <=> Is2xx(resp.status)
                /\ ~result.ok => Contains(result.msg, ToString(resp.status))

\* a 404 on delete: an error with "404"
C9_Witness ==
    /\ made.call = "issues.delete"
    /\ Executed
    /\ resp.sent_ok /\ resp.status = 404
    /\ ~result.ok /\ Contains(result.msg, "404")

(* C10: the error of a delete or of a watcher action answered by a status  *)
(* outside 2xx carries the body of the response besides the status code.   *)
C10_DeleteErrorBody ==
    (made.call \in DeleteCalls \cup WatcherCalls /\ Executed /\ resp.sent_ok
        /\ resp.body_ok /\ ~Is2xx(resp.status))
    => /\ ~result.ok
       /\ Contains(result.msg, ToString(resp.status))
       /\ Contains(result.msg, resp.body)

----------------------------------------------------------------------------
\* the factory calls whose execute is a GET
GetCalls ==
    {"issues.list", "issues.show", "projects.list", "projects.show",
     "time_entries.list", "time_entries.show", "users.list", "users.show"}

\* the bodies that are a document of the kind the call reads
MatchingBodies(call) ==
    CASE call = "issues.list" -> {to_json_text(IssueListJson)}
      [] call = "issues.show" -> {to_json_text(IssueShowJson)}
      [] call = "time_entries.list" -> {to_json_text(TimeEntryListJson)}
      [] call = "projects.show" -> {to_json_text(ProjectShowJson)}
      [] call = "users.list" -> {to_json_text(UserListJson)}
      [] OTHER -> {}

ParseFailure == "Can't parse json"

(* C11: a list or show whose response arrived and was read returns the     *)
(* parse of the body whatever the status: it succeeds exactly when the     *)
(* body is a document of its kind, and fails otherwise with the parse      *)
(* failure, never with an error that carries the status; any other error   *)
(* means that no response was read.                                        *)
C11_GetIgnoresStatus ==
    (made.call \in GetCalls /\ Executed)
    => /\ (resp.sent_ok /\ resp.body_ok)
            => /\ result.ok <=> resp.body \in MatchingBodies(made.call)
               /\ ~result.ok => result.kind = "Msg" /\ result.msg = ParseFailure
       /\ (~result.ok /\ result.msg # ParseFailure) => ~(resp.sent_ok /\ resp.body_ok)

\* a 404 whose body is an issue document: show returns the issue
C11_Witness ==
    /\ made.call = "issues.show"
    /\ Executed
    /\ resp.sent_ok /\ resp.status = 404 /\ resp.body = to_json_text(IssueShowJson)
    /\ result.ok /\ result.val[1].id = 2

(* C12: every request sent carries the api key of the client as the query  *)
(* parameter key, once, in its parts and in the text of its url, and no    *)
(* header of the request holds the api key.                                *)
C12_KeyOnEveryRequest ==
    \A i \in DOMAIN sent :
        /\ HasOneParam(sent[i], "key", client.apikey)
        /\ Contains(as_str(sent[i]), "?key=" \o client.apikey)
        /\ \A h \in DOMAIN sent[i].headers :
              /\ sent[i].headers[h][2] # client.apikey
              /\ sent[i].headers[h][1] # "X-Redmine-API-Key"

\* the DELETE of a watcher went out with the key
C12_Witness ==
    /\ made.call = "issues.remove_watcher"
    /\ Len(sent) = 1
    /\ sent[1].method = "DELETE"
    /\ sent[1].query = << <<"key", "1234">> >>
    /\ as_str(sent[1]) = "http://localhost:8080/issues/12/watchers/0.json?key=1234"

\* the query pairs of a request, as a set
QueryPairs(req) == {req.query[i] : i \in DOMAIN req.query}

ExecuteCall == result' # NoResult

(* C14, as stated: every execute() performs exactly one network request,   *)
(* whether it succeeds or fails.                                           *)
C14_ExactlyOneRequest == [][ExecuteCall => Len(sent') = Len(sent) + 1]_vars

(* C14, amended: every execute() performs at most one network request. It  *)
(* performs exactly one when the host given at construction, followed by   *)
(* the path, parses as a url; otherwise it performs none and fails with    *)
(* the error of the url parser. No request is repeated, and no successful  *)
(* result is returned without a request.                                   *)
C14_AtMostOneRequest ==
    [][ExecuteCall =>
          /\ Url_parse_ok(client.host)
                => /\ Len(sent') = Len(sent) + 1
                   /\ SubSeq(sent', 1, Len(sent)) = sent
          /\ ~Url_parse_ok(client.host)
                => /\ sent' = sent
                   /\ ~result'.ok /\ result'.kind = "Msg"
          /\ result'.ok => Len(sent') = Len(sent) + 1]_vars

C14_Witness ==
    /\ made.call = "issues.delete"
    /\ Executed /\ ~result.ok
    /\ resp.sent_ok /\ resp.status = 404
    /\ Len(sent) = 1 /\ sent[1].method = "DELETE"

\* a step that is a call of a factory method of a resource Api
FactoryCall == obj.type = "None" /\ obj'.type # "None"

\* a step that is a call of a setter of the live object
SetterCall == calls' = calls + 1

(* C15: no factory method performs I/O. A factory call returns a fresh     *)
(* object bound to the shared connection and leaves no request, response   *)
(* or result behind; a setter call issues no request; so the number of     *)
(* requests is zero until an execute(), the only step that adds one.       *)
C15_FactoriesDoNoIO ==
    [][/\ FactoryCall => /\ sent' = <<>> /\ resp' = NoResponse /\ result' = NoResult
                         /\ obj'.client = client
                         /\ calls' = 0 /\ log' = <<>>
       /\ SetterCall => sent' = sent
       /\ Len(sent') > Len(sent) => ExecuteCall /\ ~FactoryCall /\ ~SetterCall]_vars

C15_Witness ==
    /\ made.call = "issues.create"
    /\ obj.type = "IssueBuilder" /\ obj.client = client
    /\ calls = 2
    /\ ~Executed /\ sent = <<>> /\ resp = NoResponse

(* C16: the connection's host and api key are never modified after         *)
(* RedmineApi::new. No factory call, setter call or execute() changes      *)
(* them, and the resource Apis and every object made from them hold the    *)
(* connection as it was constructed.                                       *)
C16_ConnectionImmutable ==
    [][/\ client' = client
       /\ api' = api
       /\ \A k \in DOMAIN api : api'[k].client = client
       /\ obj'.type # "None" => obj'.client = client]_vars

C16_Witness ==
    /\ obj.type = "TimeEntryBuilder" /\ calls = 2
    /\ Executed /\ Len(sent) = 1
    /\ client = RedmineClient_new("http://localhost:8080", "1234")
    /\ obj.client = client
    /\ api.time_entries.client = client /\ api.issues.client = client

\* a list or show execute() has read a body that is no document of the
\* kind the call reads
BodyMismatch ==
    /\ made.call \in GetCalls
    /\ Executed /\ resp.sent_ok /\ resp.body_ok
    /\ resp.body \notin MatchingBodies(made.call)

(* C17: a list/show execute() whose response body does not match the       *)
(* expected schema fails with the parse error ("Can't parse json") and     *)
(* returns no value at all, also when the body is a list whose first       *)
(* elements are well-formed.                                               *)
C17_NoPartialResult ==
    BodyMismatch => /\ ~result.ok
                    /\ result.val = <<>>
                    /\ result.kind = "Msg" /\ result.msg = ParseFailure

C17_Witness ==
    /\ made.call = "issues.list"
    /\ BodyMismatch
    /\ resp.status = 200
    /\ resp.body = to_json_text(IssueListBrokenJson)
    /\ deserialize(IssueT, IssueListBrokenJson.v[1][2].v[1]).ok
    /\ ~result.ok /\ result.val = <<>> /\ result.msg = ParseFailure

----------------------------------------------------------------------------
(* The payload of a builder as a JSON value, and the read model of a       *)
(* builder's resource.                                                     *)

\* the f32 fields of the builders: hours, estimated_hours
FloatFields == {"hours", "estimated_hours"}

\* #[derive(Serialize)] of a builder field, by its type
ValueOf(name, rule, v) ==
    CASE rule = "Option::is_none" -> IF name \in FloatFields THEN JFlt(v[1]) ELSE JNum(v[1])
      [] rule = "str::is_empty" -> JStr(v)
      [] rule = "Vec::is_empty" -> JArr([i \in DOMAIN v |-> JNum(v[i])])
      [] OTHER -> JBool(v)

\* #[derive(Serialize)] of a builder: its members, in the order of the
\* struct, without the fields that are skipped
RECURSIVE to_value_members(_, _)
to_value_members(b, schema) ==
    IF schema = <<>> THEN <<>>
    ELSE LET name == Head(schema)[1]
             rule == Head(schema)[2]
         IN (IF Skipped(rule, b[name]) THEN <<>>
             ELSE << <<name, ValueOf(name, rule, b[name])>> >>)
            \o to_value_members(b, Tail(schema))

to_value(b, schema) == JObj(to_value_members(b, schema))

ReadModelOf(type) ==
    CASE type = "IssueBuilder" -> IssueT
      [] type = "ProjectBuilder" -> ProjectT
      [] type = "TimeEntryBuilder" -> TimeEntryT
      [] type = "UserBuilder" -> UserT

\* the fields a builder and its read model have in common, each with
\* whether it is an Option in the builder and in the read model
SharedFields(type) ==
    CASE type = "IssueBuilder" ->
            {<<"subject", FALSE, FALSE>>, <<"description", FALSE, TRUE>>,
             <<"estimated_hours", TRUE, TRUE>>}
      [] type = "ProjectBuilder" ->
            {<<"name", FALSE, FALSE>>, <<"identifier", FALSE, FALSE>>,
             <<"description", FALSE, TRUE>>, <<"homepage", FALSE, TRUE>>,
             <<"is_public", FALSE, TRUE>>}
      [] type = "TimeEntryBuilder" ->
            {<<"hours", TRUE, FALSE>>, <<"spent_on", FALSE, FALSE>>,
             <<"comments", FALSE, FALSE>>}
      [] type = "UserBuilder" ->
            {<<"login", FALSE, FALSE>>, <<"firstname", FALSE, FALSE>>,
             <<"lastname", FALSE, FALSE>>, <<"mail", FALSE, FALSE>>}

\* a value as an Option, for the comparison of a field that is an Option
\* on one side only
Lift(v, is_option) == IF is_option THEN v ELSE Some(v)

(* C18: for every resource, the Create payload of a builder that was       *)
(* executed, deserialized through the read model of the resource, yields   *)
(* a value, with every field the two have in common equal to the           *)
(* builder's.                                                              *)
C18_RoundTrip ==
    (obj.type \in BuilderTypes /\ obj.kind = "Create" /\ Executed /\ Len(sent) = 1)
    => LET back == deserialize(ReadModelOf(obj.type), to_value(obj, SchemaOf(obj.type)))
       IN /\ back.ok
          /\ \A f \in SharedFields(obj.type) :
                Lift(back.val[1][f[1]], f[3]) = Lift(obj[f[1]], f[2])

\* the watcher list a history of watcher setter calls leaves: the ids of
\* the last call of watcher_user_ids, followed by the ids added since
RECURSIVE WatchersAfter(_)
WatchersAfter(l) ==
    IF l = <<>> THEN <<>>
    ELSE LET final == l[Len(l)]
         IN IF final[1] = "watcher_user_ids" THEN final[2]
            ELSE WatchersAfter(SubSeq(l, 1, Len(l) - 1)) \o final[2]

(* C19, as stated: after any sequence of calls of watcher_user_ids and     *)
(* add_watcher_user_id the builder's watcher list is the concatenation,    *)
(* in call order, of all ids passed.                                       *)
C19_WatchersAccumulate ==
    obj.type = "IssueBuilder" => obj.watcher_user_ids = PassedIds(log)

(* C19, amended: add_watcher_user_id appends its id to the watcher list,   *)
(* and watcher_user_ids replaces the list by the ids it is given; after    *)
(* any sequence of calls the list is the ids of the last call of           *)
(* watcher_user_ids (none, if there was no such call) followed by the ids  *)
(* added since, in call order, and it is what the payload carries.         *)
C19_WatchersSetOrAdd ==
    obj.type = "IssueBuilder"
    => /\ obj.watcher_user_ids = WatchersAfter(log)
       /\ (Executed /\ sent # <<>>)
             => LET issue == sent[Len(sent)].json[1].issue
                IN IF obj.watcher_user_ids = <<>>
                   THEN "watcher_user_ids" \notin DOMAIN issue
                   ELSE issue.watcher_user_ids = obj.watcher_user_ids

C19_Witness ==
    /\ obj.type = "IssueBuilder"
    /\ log = << <<"add_watcher_user_id", <<12>> >>, <<"watcher_user_ids", <<1>> >> >>
    /\ obj.watcher_user_ids = <<1>>
    /\ Executed /\ Len(sent) = 1
    /\ sent[1].json[1].issue.watcher_user_ids = <<1>>

ResourceKinds == {"issues", "projects", "time_entries", "users"}

\* the factory methods that can be called on the value of RedmineApi::new:
\* those of the resource Apis the struct holds
Reachable(kind) == IF kind \in DOMAIN api THEN ApiMethods(kind) ELSE {}

(* C20: the facade has one accessor for each of the four resource kinds    *)
(* (issues, projects, time entries, users), and list, show, create,        *)
(* update and delete of every kind are reachable from it.                  *)
C20_FourAccessors ==
    \A kind \in ResourceKinds :
        /\ kind \in DOMAIN api
        /\ api[kind].client = client
        /\ {"list", "show", "create", "update", "delete"} \subseteq Reachable(kind)

\* execute() returns true exactly when an answer with a 2xx status came
\* back, and fails otherwise
TrueOn2xxOnly ==
    Executed => /\ result.ok <=> (resp.sent_ok /\ Is2xx(resp.status))
                /\ result.ok => result.val = <<TRUE>>

(* C21: add_watcher(issue_id, watcher_id).execute() issues a POST to       *)
(* /issues/{issue_id}/watchers.json whose body carries the watcher's user  *)
(* id, remove_watcher(issue_id, watcher_id).execute() issues a DELETE to   *)
(* /issues/{issue_id}/watchers/{watcher_id}.json with no body; each        *)
(* returns true on a 2xx status and fails otherwise.                       *)
C21_WatcherPaths ==
    /\ made.call = "issues.add_watcher"
          => /\ \A i \in DOMAIN sent :
                   /\ sent[i].method = "POST"
                   /\ sent[i].path = "/issues/" \o ToString(made.args[1]) \o "/watchers.json"
                   /\ sent[i].json = Some([user_id |-> made.args[2]])
             /\ TrueOn2xxOnly
    /\ made.call = "issues.remove_watcher"
          => /\ \A i \in DOMAIN sent :
                   /\ sent[i].method = "DELETE"
                   /\ sent[i].path = "/issues/" \o ToString(made.args[1]) \o "/watchers/"
                                        \o ToString(made.args[2]) \o ".json"
                   /\ sent[i].json = None
             /\ TrueOn2xxOnly

C21_Witness ==
    /\ made.call = "issues.add_watcher" /\ made.args = <<12, 0>>
    /\ Len(sent) = 1 /\ sent[1].method = "POST"
    /\ sent[1].path = "/issues/12/watchers.json"
    /\ sent[1].json = Some([user_id |-> 0])
    /\ resp.sent_ok /\ resp.status = 404
    /\ ~result.ok /\ result.msg = "Error: 404 Not Found"

\* the fields of a builder that are not part of the resource
InternalFields == {"client", "kind", "update_id"}

\* the value of key k of a payload is the value field k of builder b holds
CarriesField(payload, b, k) ==
    LET rule == SchemaOf(b.type)[CHOOSE i \in DOMAIN SchemaOf(b.type) : SchemaOf(b.type)[i][1] = k][2]
    IN IF rule = "Option::is_none" THEN b[k] = Some(payload[k]) ELSE b[k] = payload[k]

(* C22: every create or update payload is sent inside an envelope with     *)
(* exactly one top-level key, the singular resource name (issue, project,  *)
(* time_entry, user); its value has only keys that are fields of the       *)
(* builder, each with the value the builder holds, and none of the         *)
(* internal fields client, kind, update_id.                                *)
C22_Envelope ==
    [][(obj.type \in BuilderTypes /\ ExecuteStep)
        => LET body == sent'[Len(sent')].json
           IN /\ body # None
              /\ DOMAIN body[1] = {EnvelopeOf(made.call)}
              /\ LET payload == body[1][EnvelopeOf(made.call)]
                 IN /\ DOMAIN payload \subseteq FieldsOf(obj.type) \ InternalFields
                    /\ \A k \in DOMAIN payload : CarriesField(payload, obj, k)]_vars

C22_Witness ==
    /\ made.call = "time_entries.update" /\ made.args = <<12>>
    /\ obj.kind = "Update" /\ obj.update_id = 12
    /\ calls = 1 /\ Executed /\ Len(sent) = 1
    /\ sent[1].json = Some([time_entry |-> [comments |-> "a"]])

\* the resource path of a builder, by its type
ResourceOfType(type) ==
    CASE type = "IssueBuilder" -> "/issues"
      [] type = "ProjectBuilder" -> "/projects"
      [] type = "TimeEntryBuilder" -> "/time_entries"
      [] type = "UserBuilder" -> "/users"

(* C23: for every write builder, execute() dispatches by variant tag: a    *)
(* Create builder issues a POST to the collection path of its resource     *)
(* and returns what RedmineClient::create returns for the answer, an       *)
(* Update builder issues a PUT to the resource path with the update id     *)
(* appended and returns what RedmineClient::update returns, success or     *)
(* failure.                                                                *)
C23_DispatchByKind ==
    [][(obj.type \in BuilderTypes /\ ExecuteStep)
        => LET req == sent'[Len(sent')]
               collection == ResourceOfType(obj.type) \o ".json"
               member == ResourceOfType(obj.type) \o "/" \o ToString(obj.update_id) \o ".json"
           IN /\ obj.kind \in {"Create", "Update"}
              /\ obj.kind = "Create"
                    => /\ req.method = "POST" /\ req.path = collection
                       /\ result' = create(collection, resp')
              /\ obj.kind = "Update"
                    => /\ req.method = "PUT" /\ req.path = member
                       /\ result' = update(member, resp')]_vars

C23_Witness ==
    /\ obj.type = "UserBuilder" /\ obj.kind = "Update" /\ obj.update_id = 12
    /\ calls = 1
    /\ Len(sent) = 1 /\ sent[1].method = "PUT" /\ sent[1].path = "/users/12.json"
    /\ resp.sent_ok /\ resp.status = 404
    /\ ~result.ok /\ result = update("/users/12.json", resp)

\* the fields for_create of a builder populates, in the order of its
\* arguments, each with whether the field is an Option
MandatoryOf(type) ==
    CASE type = "IssueBuilder" ->
            << <<"project_id", TRUE>>, <<"tracker_id", TRUE>>, <<"status_id", TRUE>>,
               <<"priority_id", TRUE>>, <<"subject", FALSE>> >>
      [] type = "ProjectBuilder" -> << <<"name", FALSE>>, <<"identifier", FALSE>> >>
      [] type = "TimeEntryBuilder" ->
            << <<"issue_id", TRUE>>, <<"hours", TRUE>>, <<"activity_id", TRUE>> >>
      [] type = "UserBuilder" ->
            << <<"login", FALSE>>, <<"firstname", FALSE>>, <<"lastname", FALSE>>,
               <<"mail", FALSE>> >>

\* the value every field of a builder has before it is populated
DefaultOf(type) ==
    CASE type = "IssueBuilder" -> IssueBuilder_default
      [] type = "ProjectBuilder" -> ProjectBuilder_default
      [] type = "TimeEntryBuilder" -> TimeEntryBuilder_default
      [] type = "UserBuilder" -> UserBuilder_default

\* builder b, made with arguments args, is as for_create leaves it
FreshCreate(b, args) ==
    LET m == MandatoryOf(b.type)
        names == {m[i][1] : i \in DOMAIN m}
    IN /\ b.kind = "Create"
       /\ Len(args) = Len(m)
       /\ \A i \in DOMAIN m : b[m[i][1]] = IF m[i][2] THEN Some(args[i]) ELSE args[i]
       /\ \A f \in DOMAIN b \ (names \cup {"kind"}) : b[f] = DefaultOf(b.type)[f]

\* builder b, made with arguments args, is as for_update leaves it
FreshUpdate(b, args) ==
    /\ b.kind = "Update"
    /\ b.update_id = args[1]
    /\ \A f \in DOMAIN b \ {"kind", "update_id"} : b[f] = DefaultOf(b.type)[f]

(* C24: for all four write builders, a builder made by for_create carries  *)
(* the Create tag with the mandatory fields populated from the arguments,  *)
(* a builder made by for_update carries the Update tag with only the       *)
(* target id populated, the tag is one of the two at all times, and no     *)
(* setter call and no execute() changes it.                                *)
C24_KindTag ==
    [][obj'.type \in BuilderTypes
        => /\ obj'.kind \in {"Create", "Update"}
           /\ made'.call \in CreateCalls <=> obj'.kind = "Create"
           /\ made'.call \in UpdateCalls <=> obj'.kind = "Update"
           /\ (FactoryCall /\ made'.call \in CreateCalls) => FreshCreate(obj', made'.args)
           /\ (FactoryCall /\ made'.call \in UpdateCalls) => FreshUpdate(obj', made'.args)
           /\ ~FactoryCall => /\ obj'.kind = obj.kind
                              /\ obj'.update_id = obj.update_id]_vars

C24_Witness ==
    /\ made.call = "time_entries.update" /\ made.args = <<12>>
    /\ obj.type = "TimeEntryBuilder" /\ obj.kind = "Update" /\ obj.update_id = 12
    /\ calls = 2 /\ Executed /\ Len(sent) = 1

FilterTypes == {"IssueFilter", "TimeEntryFilter", "UserFilter"}

(* C25, as stated: a filter or write builder is consumed exactly once:     *)
(* once its execute() has run, no setter and no execute() is called on it  *)
(* again, and it never yields more than one request.                       *)
C25_ConsumedOnce ==
    [][(obj.type \in FilterTypes \cup BuilderTypes /\ sent # <<>>)
        => /\ ~SetterCall /\ ~ExecuteCall
           /\ Len(sent') <= 1]_vars

(* C25, amended: execute() borrows the filter or write builder and does    *)
(* not consume it: each call of execute() issues one request (the host     *)
(* being a url) and leaves the same instance in place, which can be        *)
(* executed again and changed by further setter calls; an instance yields  *)
(* one request for every execute() called on it.                           *)
C25_BorrowedNotConsumed ==
    [][(obj.type \in FilterTypes \cup BuilderTypes /\ ExecuteCall)
        => /\ obj'.type = obj.type
           /\ made' = made /\ calls' = calls /\ log' = log
           /\ Len(sent') = Len(sent) + 1
           /\ SubSeq(sent', 1, Len(sent)) = sent]_vars

\* an issue filter was executed, given an id, and executed again
C25_Witness ==
    /\ obj.type = "IssueFilter"
    /\ log = << <<"issue_id", <<1>> >> >> /\ calls = 1
    /\ Executed /\ Len(sent) = 2
    /\ sent[1].query = << <<"key", "1234">> >>
    /\ HasOneParam(sent[2], "issue_id", "1")

\* the fields of the live object the step has changed
Changed == {f \in DOMAIN obj : obj'[f] # obj[f]}

\* the setters that add to a list, and the field each setter writes (a
\* setter that is not listed writes the field of its own name)
ListSetters == {"issue_id", "issue_ids", "watcher_user_ids", "add_watcher_user_id"}
FieldOf(setter) ==
    CASE setter \in {"issue_id", "issue_ids"} -> "issue_id"
      [] setter = "add_watcher_user_id" -> "watcher_user_ids"
      [] OTHER -> setter

(* C26: each setter of a write builder or filter changes the one field it  *)
(* is the setter of and leaves every other field, the variant tag, the     *)
(* update id and the connection unchanged; a setter of a non-list field    *)
(* stores the value it is passed whatever the field held (last call        *)
(* wins), so a second call with the same value changes nothing.            *)
C26_SetterFrame ==
    [][SetterCall
        => /\ obj.type \in FilterTypes \cup BuilderTypes
           /\ DOMAIN obj' = DOMAIN obj
           /\ Changed \subseteq {FieldOf(last'.setter)}
           /\ Changed \cap (InternalFields \cup {"type"}) = {}
           /\ client' = client /\ obj'.client = obj.client
           /\ last'.setter \notin ListSetters
                 => /\ obj'[last'.setter] = last'.value
                    /\ (last.setter = last'.setter /\ last.value = last'.value) => obj' = obj]_vars

\* two setter calls were made on a created issue builder, the last of them
\* subject("a") over the subject the constructor was given
C26_Witness ==
    /\ made.call = "issues.create" /\ made.args[5] = "subject"
    /\ calls = 2 /\ touched = {"project_id", "tracker_id", "status_id", "priority_id", "subject"}
    /\ last = [setter |-> "subject", value |-> "a"]
    /\ obj.subject = "a"
    /\ obj.kind = "Create" /\ obj.project_id = Some(1)

\* the &str fields of the four builders
StringFields ==
    {"subject", "description", "notes", "name", "identifier", "homepage", "login",
     "firstname", "lastname", "mail", "password", "spent_on", "comments"}

\* the payload inside the envelope of the request the step has sent
PayloadSent == sent'[Len(sent')].json[1][EnvelopeOf(made.call)]

(* C27: for every string field of a write builder, a field that holds the  *)
(* empty string, whether it was set to it by a setter or the constructor   *)
(* or never set, has no key in the payload, and a field that holds         *)
(* another string has its key with that string; so the payload of a        *)
(* builder on which a string setter was called with "" is the payload of   *)
(* the builder with that field never set, create or update.                *)
C27_EmptyStringOmitted ==
    [][(obj.type \in BuilderTypes /\ ExecuteStep)
        => \A f \in StringFields \cap DOMAIN obj :
              /\ obj[f] = "" => f \notin DOMAIN PayloadSent
              /\ obj[f] # "" => (f \in DOMAIN PayloadSent /\ PayloadSent[f] = obj[f])
              /\ (last.setter = f /\ last.value = "")
                    => PayloadSent = Serialize([obj EXCEPT ![f] = DefaultOf(obj.type)[f]],
                                               SchemaOf(obj.type))]_vars

\* an update of a project whose description was set to "" went out, and
\* the payload has no description
C27_Witness ==
    /\ made.call = "projects.update" /\ obj.kind = "Update"
    /\ last = [setter |-> "description", value |-> ""]
    /\ "description" \in touched
    /\ Executed /\ Len(sent) = 1
    /\ "description" \notin DOMAIN sent[1].json[1].project

\* the Option<u32> and Option<f32> fields of the four builders
OptionFields ==
    {"project_id", "tracker_id", "status_id", "priority_id", "category_id",
     "fixed_version_id", "assigned_to_id", "parent_issue_id", "estimated_hours",
     "parent_id", "issue_id", "hours", "activity_id", "auth_source_id"}

(* C28: for every optional numeric field of a write builder, a value set   *)
(* through its setter (or by the constructor) is in the payload under the  *)
(* field's key, the value 0 as 0, and a field never set has no key: an     *)
(* explicit zero is distinguishable from a field that was never set.       *)
C28_ExplicitZeroSent ==
    [][(obj.type \in BuilderTypes /\ ExecuteStep)
        => \A f \in OptionFields \cap DOMAIN obj :
              /\ f \in DOMAIN PayloadSent <=> obj[f] # None
              /\ f \in touched <=> obj[f] # None
              /\ obj[f] # None => PayloadSent[f] = obj[f][1]
              /\ last.setter = f => (f \in DOMAIN PayloadSent /\ Some(PayloadSent[f]) = last.value)]_vars

\* category_id(0) was called on an issue update and the payload carries
\* category_id 0 and no other optional field
C28_Witness ==
    /\ made.call = "issues.update"
    /\ last = [setter |-> "category_id", value |-> Some(0)]
    /\ calls = 1 /\ Executed /\ Len(sent) = 1
    /\ DOMAIN sent[1].json[1].issue = {"category_id", "is_private", "private_notes"}
    /\ sent[1].json[1].issue.category_id = 0

\* the scalar constraints of a filter, by its type
ScalarsOf(type) ==
    CASE type = "IssueFilter" -> IssueFilterScalars
      [] type = "TimeEntryFilter" -> {"user_id", "project_id"}
      [] OTHER -> {}

\* the names of the query pairs of a request
QueryNames(req) == {req.query[i][1] : i \in DOMAIN req.query}

(* C29: the query of a filter's request has a parameter only for the       *)
(* constraints that were set: besides key, one parameter for every scalar  *)
(* constraint a setter was called for, with the value set last, one        *)
(* issue_id parameter when an id was added, and nothing else, no name      *)
(* twice; list().execute() with no setter sends key alone.                 *)
C29_OnlySetConstraints ==
    [][(obj.type \in FilterTypes /\ ExecuteStep)
        => LET req == sent'[Len(sent')]
               scalars == ScalarsOf(obj.type) \cap touched
               ids == IF obj.type = "IssueFilter" /\ PassedIds(log) # <<>>
                      THEN {"issue_id"} ELSE {}
           IN /\ req.method = "GET"
              /\ QueryNames(req) = {"key"} \cup scalars \cup ids
              /\ Len(req.query) = Cardinality(QueryNames(req))
              /\ \A f \in scalars : HasOneParam(req, f, ToString(obj[f][1]))
              /\ last.setter \in scalars
                    => HasOneParam(req, last.setter, ToString(last.value[1]))
              /\ calls = 0 => req.query = << <<"key", client.apikey>> >>]_vars

\* a time entry filter given a user id and nothing else was executed
C29_Witness ==
    /\ made.call = "time_entries.list"
    /\ touched = {"user_id"} /\ last = [setter |-> "user_id", value |-> Some(12)]
    /\ Executed /\ Len(sent) = 1
    /\ sent[1].path = "/time_entries.json"
    /\ QueryPairs(sent[1]) = {<<"key", "1234">>, <<"user_id", "12">>}
    /\ Len(sent[1].query) = 2

\* two requests are the same but for the order of their query parameters
SameRequest(a, b) ==
    /\ a.method = b.method /\ a.host = b.host /\ a.path = b.path
    /\ QueryPairs(a) = QueryPairs(b) /\ Len(a.query) = Len(b.query)
    /\ a.json = b.json /\ a.headers = b.headers

(* C30: execute() does not modify the filter or write builder it runs on:  *)
(* its fields, accumulated id lists included, are the same after the call  *)
(* as before, and an execute() that follows an execute() with no setter    *)
(* call in between sends a request with the same method, path, query       *)
(* parameters and payload as the one before.                               *)
C30_ExecuteLeavesBuilder ==
    [][(obj.type \in FilterTypes \cup BuilderTypes /\ ExecuteCall)
        => /\ obj' = obj
           /\ touched' = touched /\ log' = log /\ last' = last
           /\ (Executed /\ ExecuteStep /\ sent # <<>>)
                 => SameRequest(sent'[Len(sent')], sent[Len(sent)])]_vars

\* an issue filter given the ids 2, 3 was executed twice
C30_Witness ==
    /\ obj.type = "IssueFilter" /\ obj.issue_id = <<2, 3>>
    /\ log = << <<"issue_ids", <<2, 3>> >> >> /\ calls = 1
    /\ Executed /\ Len(sent) = 2
    /\ HasOneParam(sent[1], "issue_id", "2,3")
    /\ SameRequest(sent[1], sent[2])

====
